---- MODULE Spec2Model ----
(***************************************************************************)
(* NexusShell: capability store (SecurityContext), object bridge gate,     *)
(* command execution and transactions (NexusShell), scripted transactions  *)
(* (NexusTransaction).                                                     *)
(*                                                                         *)
(* Strings are sequences of symbols.  A symbol other than "*" and "."      *)
(* stands for a chunk of literal text without regular-expression           *)
(* metacharacters; "*" and "." are the characters themselves.              *)
(***************************************************************************)
EXTENDS Integers, Sequences, FiniteSets, TLC

VARIABLES
    permissions,      \* SecurityContext.permissions: Map in insertion order
    capabilities,     \* SecurityContext.capabilities: Set
    auditLog,         \* SecurityContext.auditLog: Array
    securityPolicies, \* SecurityContext.securityPolicies: Map
    lastCall,         \* the last operation called and what it returned
    isRunning,        \* NexusShell.isRunning
    currentDirectory, \* NexusShell.currentDirectory
    environment,      \* NexusShell.environment
    aliases,          \* NexusShell.aliases
    transactionStack, \* NexusShell.transactionStack
    commandsExecuted, \* NexusShell.stats.commandsExecuted
    processCwd,       \* the process's working directory (process.chdir)
    processEnv,       \* process.env
    engineAliases,    \* CommandEngine.aliases
    commandHistory,   \* CommandEngine.commandHistory.length
    recording,        \* ExecutionRecorder.recording
    currentRecording, \* ExecutionRecorder.currentRecording.commands
    lastExec,         \* the last executeCommand call and its outcome
    txSeq,            \* number of transaction ids handed out
    tx,               \* each caller's executeTransaction activation
    lastBridge,       \* the last bridge method called and what it did
    recorder,         \* the recorder's counter and recordings, the activation of
                      \* stopRecording, what it saved and what it returned
    replaySession,    \* the activation of replay
    marshal,          \* a value on its way between the two domains
    parsed,           \* the last command line parsed and what it gave
    repl,             \* the REPL's mode, buffer and what it handled
    eng,              \* the activation of the engine's execute
    sandbox,          \* the allow-list of the sandbox createSandbox returned
    ntOperations,     \* NexusTransaction._operations
    ntRollbackHandlers, \* NexusTransaction._rollbackHandlers
    nt                \* the activation of NexusTransaction.execute

secVars == <<permissions, capabilities, auditLog, securityPolicies>>

shellVars == <<isRunning, currentDirectory, environment, aliases,
               transactionStack, commandsExecuted, processCwd, processEnv,
               engineAliases, commandHistory, recording, currentRecording,
               lastExec, txSeq, tx>>

----------------------------------------------------------------------------
(* Bounds *)

MaxAudit == 2
MaxExec  == 4    \* executeCommand calls
MaxCmds  == 2    \* commands of one transaction
MaxTx    == 2    \* executeTransaction calls
MaxOps   == 3    \* operations added to one NexusTransaction
MaxStages == 2   \* segments of one line
MaxRecorded == 2 \* entries of one recording
MaxRecordings == 2 \* recordings started
MaxItems == 2    \* items of a marshalled list
MaxTrips == 2    \* round trips of one value
MaxPieces == 4   \* pieces of a command line
MaxInputs == 4   \* lines the REPL handles

----------------------------------------------------------------------------
(* JavaScript Map: a sequence of [key, val] in insertion order *)

MapIndex(m, k) ==
    IF \E i \in 1..Len(m) : m[i].key = k
    THEN CHOOSE i \in 1..Len(m) : m[i].key = k
    ELSE 0

MapHas(m, k) == \E i \in 1..Len(m) : m[i].key = k

MapGet(m, k) == m[MapIndex(m, k)].val

\* Map.prototype.set: an existing key keeps its position
MapSet(m, k, v) ==
    IF MapHas(m, k)
    THEN [m EXCEPT ![MapIndex(m, k)] = [key |-> k, val |-> v]]
    ELSE Append(m, [key |-> k, val |-> v])

MapKeys(m) == {m[i].key : i \in 1..Len(m)}

\* Map.prototype.delete
MapDelete(m, k) ==
    IF MapHas(m, k)
    THEN SubSeq(m, 1, MapIndex(m, k) - 1) \o SubSeq(m, MapIndex(m, k) + 1, Len(m))
    ELSE m

----------------------------------------------------------------------------
(* Strings and regular expressions *)

\* String.prototype.includes('*')
IncludesStar(s) == \E i \in 1..Len(s) : s[i] = "*"

\* String.prototype.replace('*', '.*'): only the first occurrence
ReplaceFirstStar(s) ==
    IF ~IncludesStar(s) THEN s
    ELSE LET i == CHOOSE i \in 1..Len(s) :
                      s[i] = "*" /\ \A j \in 1..(i-1) : s[j] # "*"
         IN  SubSeq(s, 1, i-1) \o <<".", "*">> \o SubSeq(s, i+1, Len(s))

\* new RegExp(src) throws SyntaxError ("Nothing to repeat") when a "*" has
\* no atom before it or follows another quantifier
RegexValid(src) ==
    \A i \in 1..Len(src) :
        src[i] = "*" => (i > 1 /\ src[i-1] # "*")

\* new RegExp(src): the atoms of the pattern, each possibly starred
RECURSIVE RegexAtoms(_, _)
RegexAtoms(src, i) ==
    IF i > Len(src) THEN <<>>
    ELSE IF i < Len(src) /\ src[i+1] = "*"
         THEN <<[ch |-> src[i], star |-> TRUE]>> \o RegexAtoms(src, i+2)
         ELSE <<[ch |-> src[i], star |-> FALSE]>> \o RegexAtoms(src, i+1)

AtomOk(a, c) == a.ch = "." \/ a.ch = c

\* the atoms from i on match some text starting at position j of s
RECURSIVE MatchHere(_, _, _, _)
MatchHere(atoms, i, s, j) ==
    IF i > Len(atoms) THEN TRUE
    ELSE IF atoms[i].star
         THEN \/ MatchHere(atoms, i+1, s, j)
              \/ /\ j <= Len(s)
                 /\ AtomOk(atoms[i], s[j])
                 /\ MatchHere(atoms, i, s, j+1)
         ELSE /\ j <= Len(s)
              /\ AtomOk(atoms[i], s[j])
              /\ MatchHere(atoms, i+1, s, j+1)

\* RegExp.prototype.test: a match may start anywhere and end anywhere
RegexTest(src, s) ==
    \E j \in 1..(Len(s)+1) : MatchHere(RegexAtoms(src, 1), 1, s, j)

----------------------------------------------------------------------------
(* SecurityContext *)

\* hasPermission, the wildcard loop: the index of the first entry, from i on,
\* whose key includes "*" and whose regular expression tests true; minus the
\* index when that key does not compile (new RegExp throws); 0 at the end
RECURSIVE WildcardScan(_, _, _)
WildcardScan(perms, permission, i) ==
    IF i > Len(perms) THEN 0
    ELSE IF IncludesStar(perms[i].key)
         THEN LET src == ReplaceFirstStar(perms[i].key)
              IN  IF ~RegexValid(src) THEN 0 - i
                  ELSE IF RegexTest(src, permission) THEN i
                  ELSE WildcardScan(perms, permission, i+1)
         ELSE WildcardScan(perms, permission, i+1)

\* hasPermission throws (SyntaxError out of new RegExp)
hasPermissionThrows(perms, permission) ==
    /\ ~MapHas(perms, permission)
    /\ WildcardScan(perms, permission, 1) < 0

\* a lookup that lets a wildcard entry win over the exact key
hasPermissionWildcardFirst(perms, permission) ==
    LET i == WildcardScan(perms, permission, 1)
    IN  IF i > 0 THEN perms[i].val
        ELSE IF MapHas(perms, permission) THEN MapGet(perms, permission)
        ELSE FALSE

hasPermission(perms, permission) ==
    IF MapHas(perms, permission) THEN MapGet(perms, permission)
    ELSE LET i == WildcardScan(perms, permission, 1)
         IN  IF i > 0 THEN perms[i].val ELSE FALSE

\* an audit entry; timestamp, context and source are not modelled
AuditEntry(permission, granted) ==
    [permission |-> permission, granted |-> granted]

\* what lastCall holds after an operation that is not a permission check
Called(op) ==
    [op |-> op, permission |-> <<>>, result |-> FALSE, threw |-> FALSE,
     auditBefore |-> 0, auditAtReport |-> 0]

\* a check that writes the audit entry for granted checks only
CheckOutcomeGrantedOnly(log, perms, permission) ==
    LET granted == hasPermission(perms, permission)
        log1    == IF granted
                   THEN Append(log, AuditEntry(permission, granted))
                   ELSE log
    IN  [log  |-> log1,
         call |-> [op |-> "checkPermission", permission |-> permission,
                   result |-> granted, threw |-> FALSE,
                   auditBefore |-> Len(log), auditAtReport |-> Len(log1)]]

\* the audit log and the call record after checkPermission(permission)
CheckOutcome(log, perms, permission) ==
    IF hasPermissionThrows(perms, permission)
    THEN [log  |-> log,
          call |-> [op |-> "checkPermission", permission |-> permission,
                    result |-> FALSE, threw |-> TRUE,
                    auditBefore |-> Len(log), auditAtReport |-> 0]]
    ELSE LET granted == hasPermission(perms, permission)
             log1    == Append(log, AuditEntry(permission, granted))
         IN  [log  |-> log1,
              call |-> [op |-> "checkPermission", permission |-> permission,
                        result |-> granted, threw |-> FALSE,
                        auditBefore |-> Len(log),
                        \* the log's length when 'permissionDenied' is
                        \* emitted and the value returned
                        auditAtReport |-> Len(log1)]]

checkPermission(permission) ==
    /\ Len(auditLog) < MaxAudit
    /\ LET out == CheckOutcome(auditLog, permissions, permission)
       IN  /\ auditLog' = out.log
           /\ lastCall' = out.call
    /\ UNCHANGED <<permissions, capabilities, securityPolicies>>

grantPermission(permission) ==
    /\ permissions' = MapSet(permissions, permission, TRUE)
    /\ lastCall' = Called("grantPermission")
    /\ UNCHANGED <<capabilities, auditLog, securityPolicies>>

\* a revoke that removes the key instead of storing false
revokePermissionDeletes(permission) ==
    /\ permissions' = MapDelete(permissions, permission)
    /\ lastCall' = [Called("revokePermission") EXCEPT !.permission = permission]
    /\ UNCHANGED <<capabilities, auditLog, securityPolicies>>

revokePermission(permission) ==
    /\ permissions' = MapSet(permissions, permission, FALSE)
    /\ lastCall' = [Called("revokePermission") EXCEPT !.permission = permission]
    /\ UNCHANGED <<capabilities, auditLog, securityPolicies>>

addCapability(capability) ==
    /\ capabilities' = capabilities \cup {capability}
    /\ lastCall' = Called("addCapability")
    /\ UNCHANGED <<permissions, auditLog, securityPolicies>>

removeCapability(capability) ==
    /\ capabilities' = capabilities \ {capability}
    /\ lastCall' = Called("removeCapability")
    /\ UNCHANGED <<permissions, auditLog, securityPolicies>>

clearAuditLog ==
    /\ auditLog' = <<>>
    /\ lastCall' = Called("clearAuditLog")
    /\ UNCHANGED <<permissions, capabilities, securityPolicies>>

\* no sandbox has been created
NoSandbox == <<"none">>

\* the sandbox object's checkPermission closure
SandboxCheck(allowed, permission) ==
    \/ \E i \in 1..Len(allowed) : allowed[i] = permission
    \/ \E i \in 1..Len(allowed) :
          /\ IncludesStar(allowed[i])
          /\ RegexTest(ReplaceFirstStar(allowed[i]), permission)

\* createSandbox returns a new object and changes nothing of the context
createSandbox(allowed) ==
    /\ sandbox' = allowed
    /\ lastCall' = Called("createSandbox")
    /\ UNCHANGED secVars

\* new Map(entries): a repeated key keeps its first position, last value
RECURSIVE MapFromEntries(_, _)
MapFromEntries(entries, n) ==
    IF n = 0 THEN <<>>
    ELSE MapSet(MapFromEntries(entries, n-1), entries[n].key, entries[n].val)

importConfig(config) ==
    /\ permissions' = MapFromEntries(config.permissions, Len(config.permissions))
    /\ capabilities' = config.capabilities
    /\ securityPolicies' = config.policies
    /\ lastCall' = Called("importConfig")
    /\ UNCHANGED auditLog

\* process.cwd() when the shell is constructed
HomeDir == "/home/u"

\* the permission key of executeCommand's check
CommandExecute == <<"command:", "execute">>

\* setDefaultPermissions: the keys granted, in order
DefaultPermissions ==
    << CommandExecute,
       <<"command:", "help">>,
       <<"command:", "exit">>,
       <<"command:", "history">>,
       <<"command:", "alias">>,
       <<"fs:", "read:", HomeDir, "/", "*">>,
       <<"fs:", "write:", HomeDir, "/", "*">>,
       <<"net:", "connect:", "localhost:", "*">>,
       <<"proc:", "list">>,
       <<"proc:", "info">> >>

DefaultCapabilities == {"shell:basic", "fs:user-directory", "net:local"}

RECURSIVE GrantAll(_, _, _)
GrantAll(perms, keys, n) ==
    IF n = 0 THEN perms
    ELSE MapSet(GrantAll(perms, keys, n-1), keys[n], TRUE)

\* loadSecurityPolicies: the two built-in policies
SandboxPolicy ==
    << [type |-> "deny",  resource |-> <<"fs:", "write:", "/etc/", "*">>],
       [type |-> "deny",  resource |-> <<"fs:", "write:", "/usr/", "*">>],
       [type |-> "deny",  resource |-> <<"proc:", "kill:", "*">>],
       [type |-> "allow", resource |-> <<"fs:", "read:", "*">>] >>

DeveloperPolicy ==
    << [type |-> "allow", resource |-> <<"fs:", "*">>],
       [type |-> "allow", resource |-> <<"proc:", "*">>],
       [type |-> "allow", resource |-> <<"net:", "*">>],
       [type |-> "deny",  resource |-> <<"fs:", "write:", "/etc/", "passwd">>] >>

loadSecurityPolicies(policies) ==
    MapSet(MapSet(policies, "sandbox", SandboxPolicy),
           "developer", DeveloperPolicy)

\* SecurityContext.initialize: setDefaultPermissions, loadSecurityPolicies
initialize ==
    /\ permissions' = GrantAll(permissions, DefaultPermissions,
                               Len(DefaultPermissions))
    /\ capabilities' = capabilities \cup DefaultCapabilities
    /\ securityPolicies' = loadSecurityPolicies(securityPolicies)
    /\ lastCall' = Called("initialize")
    /\ UNCHANGED auditLog

\* a rule loop that grants every resource, whatever the rule's type
RECURSIVE ApplyRulesGrantOnly(_, _, _)
ApplyRulesGrantOnly(perms, rules, n) ==
    IF n = 0 THEN perms
    ELSE MapSet(ApplyRulesGrantOnly(perms, rules, n-1), rules[n].resource, TRUE)

\* applyPolicy, the rule loop: allow grants the resource, deny revokes it
RECURSIVE ApplyRules(_, _, _)
ApplyRules(perms, rules, n) ==
    IF n = 0 THEN perms
    ELSE MapSet(ApplyRules(perms, rules, n-1), rules[n].resource,
                rules[n].type = "allow")

applyPolicy(policyName) ==
    IF ~MapHas(securityPolicies, policyName)
    THEN \* throws "Security policy not found"
         /\ lastCall' = [Called("applyPolicy") EXCEPT !.threw = TRUE]
         /\ UNCHANGED secVars
    ELSE LET rules == MapGet(securityPolicies, policyName)
         IN  /\ permissions' = ApplyRules(permissions, rules, Len(rules))
             /\ lastCall' = Called("applyPolicy")
             /\ UNCHANGED <<capabilities, auditLog, securityPolicies>>

----------------------------------------------------------------------------
(* NexusShell and CommandEngine *)

Undefined == "undefined"

Null == "null"

\* the command lines of the model
CdTmp       == [name |-> "cd",      arg |-> "/tmp"]
ExportX     == [name |-> "export",  arg |-> "X=1"]
UnsetX      == [name |-> "unset",   arg |-> "X"]
Pwd         == [name |-> "pwd",     arg |-> ""]
AliasLl     == [name |-> "alias",   arg |-> "ll=pwd"]
UnaliasLl   == [name |-> "unalias", arg |-> "ll"]
Ll          == [name |-> "ll",      arg |-> ""]
Nonexistent == [name |-> "nonexistent-command", arg |-> ""]

Commands == {CdTmp, ExportX, UnsetX, Pwd, AliasLl, UnaliasLl, Ll, Nonexistent}

\* the names registered with registerCommand ("alias" and "unalias" stand
\* for commands whose handlers call setAlias and removeAlias)
Registered == {"cd", "export", "unset", "pwd", "alias", "unalias"}

setAlias(m, alias, command) == MapSet(m, alias, command)

removeAlias(m, alias) == MapDelete(m, alias)

\* the shell state a command handler reads and writes
ShellState ==
    [currentDirectory |-> currentDirectory, environment |-> environment,
     processCwd |-> processCwd, processEnv |-> processEnv,
     engineAliases |-> engineAliases]

\* the exit code of the child spawned for a command name; -1 when spawn
\* emits 'error' (no such binary)
ChildExit(command) ==
    IF command = "true" THEN 0
    ELSE IF command = "false" THEN 1
    ELSE 0 - 1

\* executeSystemCommand: 'error' rejects, 'close' with code 0 resolves, any
\* other code rejects
executeSystemCommand(st, command) ==
    LET code == ChildExit(command)
    IN  IF code < 0
        THEN [state |-> st, threw |-> TRUE, value |-> "spawn ENOENT"]
        ELSE IF code = 0
        THEN [state |-> st, threw |-> FALSE, value |-> "success=true code=0"]
        ELSE [state |-> st, threw |-> TRUE,
              value |-> "Command failed with code 1"]

\* executeSingleCommand: the state after the command and what it returned
\* or threw
executeSingleCommand(st, input) ==
    LET resolved == IF MapHas(st.engineAliases, input.name)
                    THEN MapGet(st.engineAliases, input.name)
                    ELSE input.name
    IN  IF resolved \notin Registered
        THEN executeSystemCommand(st, resolved)
        ELSE CASE resolved = "cd" ->
                    [state |-> [st EXCEPT !.currentDirectory = input.arg,
                                          !.processCwd = input.arg],
                     threw |-> FALSE, value |-> "Changed directory"]
               [] resolved = "export" ->
                    [state |-> [st EXCEPT !.environment = "1",
                                          !.processEnv = "1"],
                     threw |-> FALSE, value |-> "Exported"]
               [] resolved = "unset" ->
                    IF st.environment # Undefined
                    THEN [state |-> [st EXCEPT !.environment = Undefined,
                                               !.processEnv = Undefined],
                          threw |-> FALSE, value |-> "Unset"]
                    ELSE [state |-> st, threw |-> FALSE,
                          value |-> "Variable not found"]
               [] resolved = "pwd" ->
                    [state |-> st, threw |-> FALSE,
                     value |-> st.currentDirectory]
               [] resolved = "alias" ->
                    [state |-> [st EXCEPT !.engineAliases =
                                    setAlias(st.engineAliases, "ll", "pwd")],
                     threw |-> FALSE, value |-> "Alias set"]
               [] resolved = "unalias" ->
                    [state |-> [st EXCEPT !.engineAliases =
                                    removeAlias(st.engineAliases, "ll")],
                     threw |-> FALSE, value |-> "Alias removed"]

\* a recordCommand that puts the new entry in front of the others
recordCommandInFront(rec, cmds, input) ==
    IF ~rec THEN cmds
    ELSE <<[id |-> Len(cmds) + 1, input |-> input,
            result |-> Undefined, error |-> Undefined,
            executionTime |-> Undefined]>> \o cmds

\* ExecutionRecorder.recordCommand (no-op unless recording)
recordCommand(rec, cmds, input) ==
    IF ~rec THEN cmds
    ELSE Append(cmds, [id |-> Len(cmds) + 1, input |-> input,
                       result |-> Undefined, error |-> Undefined,
                       executionTime |-> Undefined])

\* NexusShell.executeCommand(input), the whole call from the isRunning test
\* to the value returned or the error thrown: the fields it writes and, in
\* out, what the caller gets
RunCommand(input) ==
    LET unchanged == [commandsExecuted |-> commandsExecuted,
                      auditLog |-> auditLog,
                      currentRecording |-> currentRecording,
                      commandHistory |-> commandHistory,
                      state |-> ShellState]
        check == CheckOutcome(auditLog, permissions, CommandExecute)
        run   == executeSingleCommand(ShellState, input)
    IN  IF ~isRunning
        THEN unchanged @@
             [out |-> [input |-> input, granted |-> FALSE, checked |-> FALSE,
                       dispatched |-> FALSE, threw |-> TRUE,
                       value |-> "Shell is not running"]]
        ELSE IF check.call.threw
        THEN [unchanged EXCEPT !.commandsExecuted = @ + 1] @@
             [out |-> [input |-> input, granted |-> FALSE, checked |-> TRUE,
                       dispatched |-> FALSE, threw |-> TRUE,
                       value |-> "SyntaxError"]]
        \* the value checkPermission returns is not looked at
        ELSE [commandsExecuted |-> commandsExecuted + 1,
              auditLog |-> check.log,
              currentRecording |->
                  recordCommand(recording, currentRecording, input),
              commandHistory |-> commandHistory + 1,
              state |-> run.state,
              out |-> [input |-> input, granted |-> check.call.result,
                       checked |-> TRUE, dispatched |-> TRUE,
                       threw |-> run.threw, value |-> run.value]]

executeCommand(input) ==
    /\ commandsExecuted < MaxExec
    /\ LET r == RunCommand(input)
       IN  /\ commandsExecuted' = r.commandsExecuted
           /\ auditLog' = r.auditLog
           /\ currentRecording' = r.currentRecording
           /\ commandHistory' = r.commandHistory
           /\ currentDirectory' = r.state.currentDirectory
           /\ environment' = r.state.environment
           /\ processCwd' = r.state.processCwd
           /\ processEnv' = r.state.processEnv
           /\ engineAliases' = r.state.engineAliases
    /\ UNCHANGED <<permissions, capabilities, securityPolicies, isRunning,
                   aliases, recording, lastCall>>

\* a top-level call of executeCommand
ExecuteCommand(input) ==
    /\ executeCommand(input)
    /\ lastExec' = RunCommand(input).out
    /\ UNCHANGED <<transactionStack, txSeq, tx>>

\* NexusShell.start: SecurityContext.initialize, then isRunning = true
start ==
    /\ ~isRunning
    /\ permissions' = GrantAll(permissions, DefaultPermissions,
                               Len(DefaultPermissions))
    /\ capabilities' = capabilities \cup DefaultCapabilities
    /\ securityPolicies' = loadSecurityPolicies(securityPolicies)
    /\ isRunning' = TRUE
    /\ lastCall' = Called("start")
    /\ UNCHANGED <<auditLog, currentDirectory, environment, aliases,
                   transactionStack, commandsExecuted, processCwd, processEnv,
                   engineAliases, commandHistory, recording, currentRecording,
                   lastExec, txSeq, tx>>

\* NexusShell.stop
stop ==
    /\ isRunning
    /\ isRunning' = FALSE
    /\ lastCall' = Called("stop")
    /\ UNCHANGED <<secVars, currentDirectory, environment, aliases,
                   transactionStack, commandsExecuted, processCwd, processEnv,
                   engineAliases, commandHistory, recording, currentRecording,
                   lastExec, txSeq, tx>>

----------------------------------------------------------------------------
(* Transactions *)

Callers == {1, 2}

\* the options.onRollback of a transaction: absent, returning, throwing
OnRollbacks == {"none", "returns", "throws"}

RECURSIVE SeqsUpTo(_, _)
SeqsUpTo(S, n) ==
    IF n = 0 THEN {<<>>}
    ELSE LET shorter == SeqsUpTo(S, n-1)
         IN  shorter \cup {Append(q, x) : q \in shorter, x \in S}

CommandLists == SeqsUpTo(Commands, MaxCmds)

\* createSnapshot
createSnapshot ==
    [currentDirectory |-> currentDirectory, environment |-> environment,
     aliases |-> aliases]

\* Array.prototype.pop
Pop(stack) == IF stack = <<>> THEN stack ELSE SubSeq(stack, 1, Len(stack) - 1)

\* Array.prototype.find(tx => tx.id === id): the index, 0 if none
FindFrame(stack, id) ==
    IF \E k \in 1..Len(stack) : stack[k].id = id
    THEN CHOOSE k \in 1..Len(stack) :
            stack[k].id = id /\ \A j \in 1..(k-1) : stack[j].id # id
    ELSE 0

IdleTx ==
    [pc |-> "idle", id |-> 0, commands |-> <<>>, onRollback |-> "none",
     i |-> 1, results |-> <<>>, commandError |-> "", thrown |-> "",
     outcome |-> "none", executed |-> <<>>, restores |-> 0, callbacks |-> 0,
     depthBefore |-> 0,
     before |-> [currentDirectory |-> "", environment |-> "",
                 aliases |-> <<>>, processCwd |-> "", processEnv |-> "",
                 engineAliases |-> <<>>]]

\* executeTransaction, up to its first await: the id, the snapshot, the frame
\* pushed; with no commands the loop is empty and the frame is popped at once
executeTransaction(c, commands, onRollback) ==
    /\ tx[c].pc = "idle"
    /\ txSeq < MaxTx
    /\ txSeq' = txSeq + 1
    /\ LET frame == [id |-> txSeq + 1, snapshot |-> createSnapshot,
                     onRollback |-> onRollback]
           pushed == Append(transactionStack, frame)
           begun == [IdleTx EXCEPT
                        !.id = txSeq + 1, !.commands = commands,
                        !.onRollback = onRollback,
                        !.depthBefore = Len(transactionStack),
                        !.before = [currentDirectory |-> currentDirectory,
                                    environment |-> environment,
                                    aliases |-> aliases,
                                    processCwd |-> processCwd,
                                    processEnv |-> processEnv,
                                    engineAliases |-> engineAliases]]
       IN  IF commands = <<>>
           THEN /\ transactionStack' = Pop(pushed)
                /\ tx' = [tx EXCEPT ![c] =
                            [begun EXCEPT !.pc = "done", !.outcome = "returned"]]
           ELSE /\ transactionStack' = pushed
                /\ tx' = [tx EXCEPT ![c] = [begun EXCEPT !.pc = "running"]]
    /\ UNCHANGED <<secVars, lastCall, isRunning, currentDirectory, environment,
                   aliases, commandsExecuted, processCwd, processEnv,
                   engineAliases, commandHistory, recording, currentRecording,
                   lastExec>>

\* a loop body that puts each result in front of the earlier ones
TxCommandResultsInFront(c) ==
    /\ tx[c].pc = "running"
    /\ executeCommand(tx[c].commands[tx[c].i])
    /\ LET out == RunCommand(tx[c].commands[tx[c].i]).out
       IN  tx' = [tx EXCEPT ![c] =
                IF out.threw
                THEN [@ EXCEPT !.pc = "rollback",
                               !.commandError = out.value,
                               !.executed = Append(@, tx[c].i)]
                ELSE [@ EXCEPT !.pc = IF tx[c].i = Len(tx[c].commands)
                                      THEN "commit" ELSE "running",
                               !.i = @ + 1,
                               !.results = <<out.value>> \o @,
                               !.executed = Append(@, tx[c].i)]]
    /\ UNCHANGED <<transactionStack, txSeq, lastExec>>

\* the loop body: await this.executeCommand(command); results.push(result)
TxCommand(c) ==
    /\ tx[c].pc = "running"
    /\ executeCommand(tx[c].commands[tx[c].i])
    /\ LET out == RunCommand(tx[c].commands[tx[c].i]).out
       IN  tx' = [tx EXCEPT ![c] =
                IF out.threw
                THEN [@ EXCEPT !.pc = "rollback",
                               !.commandError = out.value,
                               !.executed = Append(@, tx[c].i)]
                ELSE [@ EXCEPT !.pc = IF tx[c].i = Len(tx[c].commands)
                                      THEN "commit" ELSE "running",
                               !.i = @ + 1,
                               !.results = Append(@, out.value),
                               !.executed = Append(@, tx[c].i)]]
    /\ UNCHANGED <<transactionStack, txSeq, lastExec>>

\* after the loop: this.transactionStack.pop(); return results
TxCommit(c) ==
    /\ tx[c].pc = "commit"
    /\ transactionStack' = Pop(transactionStack)
    /\ tx' = [tx EXCEPT ![c] = [@ EXCEPT !.pc = "done", !.outcome = "returned"]]
    /\ UNCHANGED <<secVars, lastCall, isRunning, currentDirectory, environment,
                   aliases, commandsExecuted, processCwd, processEnv,
                   engineAliases, commandHistory, recording, currentRecording,
                   lastExec, txSeq>>

\* the catch block up to rollbackTransaction's first await: find the frame
\* (throw when it is not there) and restoreSnapshot
rollbackTransaction(c) ==
    /\ tx[c].pc = "rollback"
    /\ LET k == FindFrame(transactionStack, tx[c].id)
       IN  IF k = 0
           THEN /\ tx' = [tx EXCEPT ![c] =
                            [@ EXCEPT !.pc = "done", !.outcome = "threw",
                                      !.thrown = "Transaction not found"]]
                /\ UNCHANGED <<currentDirectory, environment, aliases>>
           ELSE /\ currentDirectory' = transactionStack[k].snapshot.currentDirectory
                /\ environment' = transactionStack[k].snapshot.environment
                /\ aliases' = transactionStack[k].snapshot.aliases
                /\ tx' = [tx EXCEPT ![c] =
                            IF transactionStack[k].onRollback = "none"
                            THEN [@ EXCEPT !.pc = "done", !.outcome = "threw",
                                           !.restores = @ + 1,
                                           !.thrown = tx[c].commandError]
                            ELSE [@ EXCEPT !.pc = "callback",
                                           !.restores = @ + 1]]
    /\ UNCHANGED <<secVars, lastCall, isRunning, transactionStack,
                   commandsExecuted, processCwd, processEnv, engineAliases,
                   commandHistory, recording, currentRecording, lastExec, txSeq>>

\* await transaction.options.onRollback(transaction), then throw error: an
\* error out of the callback leaves rollbackTransaction and the catch block
TxCallback(c) ==
    /\ tx[c].pc = "callback"
    /\ tx' = [tx EXCEPT ![c] =
                [@ EXCEPT !.pc = "done", !.outcome = "threw",
                          !.callbacks = @ + 1,
                          !.thrown = IF tx[c].onRollback = "throws"
                                     THEN "onRollback failed"
                                     ELSE tx[c].commandError]]
    /\ UNCHANGED <<secVars, lastCall, isRunning, currentDirectory, environment,
                   aliases, transactionStack, commandsExecuted, processCwd,
                   processEnv, engineAliases, commandHistory, recording,
                   currentRecording, lastExec, txSeq>>

----------------------------------------------------------------------------
(* ExecutionRecorder *)

\* recordCommandResult: the entry with that id gets result, error and
\* executionTime = Date.now() - timestamp
recordCommandResult(rec, cmds, commandId, result, error) ==
    IF ~rec THEN cmds
    ELSE [n \in 1..Len(cmds) |->
            IF cmds[n].id = commandId
               /\ \A m \in 1..(n-1) : cmds[m].id # commandId
            THEN [cmds[n] EXCEPT !.result = result, !.error = error,
                                 !.executionTime = "elapsed"]
            ELSE cmds[n]]

NoRecording == <<[id |-> 0, input |-> Pwd, result |-> Undefined,
                  error |-> Undefined, executionTime |-> Undefined]>>

\* the commands of the recording the recordings Map holds under an id: the
\* Map holds the object of the recording in progress itself
RecordingCommands(id) ==
    IF recording /\ id = recorder.recordingId
    THEN currentRecording
    ELSE recorder.recordings[id]

\* a startRecording that counts the recording before it looks at the flag
startRecordingCountsFirst ==
    /\ recorder.pc = "idle"
    /\ recorder.recordingId < MaxRecordings
    /\ IF recording
       THEN /\ recorder' = [recorder EXCEPT !.op = "startRecording",
                                            !.threw = TRUE,
                                            !.recordingId = @ + 1,
                                            !.recordings = Append(@, <<>>)]
            /\ UNCHANGED <<recording, currentRecording>>
       ELSE /\ recording' = TRUE
            /\ currentRecording' = <<>>
            /\ recorder' = [recorder EXCEPT !.op = "startRecording",
                                            !.threw = FALSE,
                                            !.recordingId = @ + 1,
                                            !.recordings = Append(@, <<>>)]
    /\ UNCHANGED <<isRunning, currentDirectory, environment, aliases,
                   transactionStack, commandsExecuted, processCwd, processEnv,
                   engineAliases, commandHistory, lastExec, txSeq, tx>>

\* startRecording: throws while a recording is in progress; otherwise
\* recordingId++, a new current recording with no commands, recording =
\* true and recordings.set(recordingId, currentRecording)
startRecording ==
    /\ recorder.pc = "idle"
    /\ IF recording
       THEN /\ recorder' = [recorder EXCEPT !.op = "startRecording",
                                            !.threw = TRUE]
            /\ UNCHANGED <<recording, currentRecording>>
       ELSE /\ recorder.recordingId < MaxRecordings
            /\ recording' = TRUE
            /\ currentRecording' = <<>>
            /\ recorder' = [recorder EXCEPT !.op = "startRecording",
                                            !.threw = FALSE,
                                            !.recordingId = @ + 1,
                                            !.recordings = Append(@, <<>>)]
    /\ UNCHANGED <<isRunning, currentDirectory, environment, aliases,
                   transactionStack, commandsExecuted, processCwd, processEnv,
                   engineAliases, commandHistory, lastExec, txSeq, tx>>

\* stopRecording up to its first await that yields to other callers
\* (createSnapshot, then the mkdir of saveRecording)
stopRecording ==
    /\ recorder.pc = "idle"
    /\ recorder' = IF recording
                   THEN [recorder EXCEPT !.op = "stopRecording",
                                         !.pc = "saving", !.threw = FALSE]
                   ELSE [recorder EXCEPT !.op = "stopRecording",
                                         !.threw = TRUE]
    /\ UNCHANGED shellVars

\* saveRecording after the mkdir: JSON.stringify(recording) is what
\* writeFile is given, and the write is awaited
saveRecording ==
    /\ recorder.pc = "saving"
    /\ recorder' = [recorder EXCEPT !.pc = "written",
                                    !.saved = currentRecording]
    /\ UNCHANGED shellVars

\* stopRecording after its awaits: recording = false, currentRecording =
\* null, the recording (the object the Map holds) is returned
StopRecordingReturn ==
    /\ recorder.pc = "written"
    /\ recording' = FALSE
    /\ currentRecording' = <<>>
    /\ recorder' = [recorder EXCEPT
                       !.pc = "idle",
                       !.recordings[recorder.recordingId] = currentRecording,
                       !.returned = currentRecording]
    /\ UNCHANGED <<isRunning, currentDirectory, environment, aliases,
                   transactionStack, commandsExecuted, processCwd, processEnv,
                   engineAliases, commandHistory, lastExec, txSeq, tx>>

\* a direct call of executionRecorder.recordCommand(input, {})
RecorderRecordCommand(input) ==
    /\ Len(currentRecording) < MaxRecorded
    /\ currentRecording' = recordCommand(recording, currentRecording, input)
    /\ UNCHANGED <<recorder, isRunning, currentDirectory, environment,
                   aliases, transactionStack, commandsExecuted, processCwd,
                   processEnv, engineAliases, commandHistory, recording,
                   lastExec, txSeq, tx>>

\* a direct call of executionRecorder.recordCommandResult(commandId, result)
RecorderRecordCommandResult(commandId, result) ==
    /\ currentRecording' = recordCommandResult(recording, currentRecording,
                                               commandId, result, Null)
    /\ UNCHANGED <<recorder, isRunning, currentDirectory, environment,
                   aliases, transactionStack, commandsExecuted, processCwd,
                   processEnv, engineAliases, commandHistory, recording,
                   lastExec, txSeq, tx>>

\* no replay is in progress
IdleReplay == [pc |-> "idle", recordingId |-> 0, startFrom |-> 0, i |-> 0,
               held |-> 0, inProgress |-> FALSE, issued |-> <<>>,
               results |-> <<>>, outcome |-> "none"]

\* replay(recordingId, {startFrom}) up to its loop: throws when the Map has
\* no such recording; held is the number of commands the recording holds
\* at that moment, inProgress whether it is the recording being recorded
replay(recordingId, startFrom) ==
    /\ replaySession.pc = "idle"
    /\ replaySession' =
          IF recordingId \notin 1..Len(recorder.recordings)
          THEN [IdleReplay EXCEPT !.pc = "done", !.outcome = "threw",
                                  !.recordingId = recordingId,
                                  !.startFrom = startFrom]
          ELSE [IdleReplay EXCEPT
                   !.pc = "loop", !.recordingId = recordingId,
                   !.startFrom = startFrom, !.i = startFrom,
                   !.held = Len(RecordingCommands(recordingId)),
                   !.inProgress = recording
                                  /\ recordingId = recorder.recordingId]
    /\ UNCHANGED <<secVars, lastCall, shellVars, recorder>>

\* one turn of the loop: i < recording.commands.length is read anew, then
\* await shell.executeCommand(command.input) and results.push; an error
\* leaves the loop and is thrown again
ReplayStep ==
    /\ replaySession.pc = "loop"
    /\ LET commands == RecordingCommands(replaySession.recordingId)
           i == replaySession.i
       IN  IF i >= Len(commands)
           THEN /\ replaySession' = [replaySession EXCEPT
                                        !.pc = "done", !.outcome = "returned"]
                /\ UNCHANGED <<secVars, lastCall, shellVars>>
           ELSE LET out == RunCommand(commands[i + 1].input).out
                IN  /\ executeCommand(commands[i + 1].input)
                    /\ lastExec' = out
                    /\ replaySession' =
                          IF out.threw
                          THEN [replaySession EXCEPT
                                   !.pc = "done", !.outcome = "threw",
                                   !.issued = Append(@, i)]
                          ELSE [replaySession EXCEPT
                                   !.i = i + 1,
                                   !.issued = Append(@, i),
                                   !.results = Append(@,
                                       [command |-> i,
                                        input |-> commands[i + 1].input,
                                        result |-> out.value])]
                    /\ UNCHANGED <<transactionStack, txSeq, tx>>
    /\ UNCHANGED recorder

\* the caller takes the replay session or the error: the activation ends
ReplayReturn ==
    /\ replaySession.pc = "done"
    /\ replaySession' = IdleReplay
    /\ UNCHANGED <<secVars, lastCall, shellVars, recorder>>

----------------------------------------------------------------------------
(* CommandEngine.execute: lines, pipelines and scripted lines *)

TrueCmd   == [name |-> "true",  arg |-> ""]
FalseCmd  == [name |-> "false", arg |-> ""]
ListDirJs == [name |-> "fs.listDir('.')", arg |-> ""]
MkdirCmd  == [name |-> "mkdir", arg |-> ""]

\* the '|'-separated segments a line is made of
Segments == {Pwd, CdTmp, TrueCmd, FalseCmd, Nonexistent, ListDirJs}

Lines == SeqsUpTo(Segments, MaxStages) \ {<<>>}

\* isObjectPipelineMode on a text: /\w+\.\w+\(/ or .filter( .map( .reduce(
isObjectPipelineMode(segments) ==
    \E n \in 1..Len(segments) : segments[n] = ListDirJs

IdleEng ==
    [pc |-> "idle", engine |-> "none", line |-> <<>>, i |-> 0,
     result |-> Null, received |-> <<>>, results |-> <<>>, started |-> <<>>,
     evaluated |-> 0, failed |-> 0, error |-> "", outcome |-> "none",
     value |-> Null]

\* execute(input): history, then the pipeline, the scripted evaluator or the
\* single command
execute(line) ==
    /\ eng.pc = "idle"
    /\ commandHistory < MaxExec
    /\ commandHistory' = commandHistory + 1
    /\ LET begun == [IdleEng EXCEPT !.engine = "js", !.line = line]
           run   == executeSingleCommand(ShellState, line[1])
       IN  IF Len(line) > 1
           \* input.includes('|'): executePipeline
           THEN /\ eng' = [begun EXCEPT !.pc = "pipeline"]
                /\ UNCHANGED <<currentDirectory, environment, processCwd,
                               processEnv, engineAliases>>
           ELSE IF isObjectPipelineMode(line)
           \* executeObjectPipeline: new Function evaluates the input
           THEN /\ eng' = [begun EXCEPT !.pc = "done", !.evaluated = 1,
                                        !.outcome = "returned",
                                        !.value = "script value"]
                /\ UNCHANGED <<currentDirectory, environment, processCwd,
                               processEnv, engineAliases>>
           ELSE /\ eng' = [begun EXCEPT
                              !.pc = "done", !.started = <<1>>,
                              !.failed = IF run.threw THEN 1 ELSE 0,
                              !.error = IF run.threw THEN run.value ELSE "",
                              !.outcome = IF run.threw THEN "threw"
                                          ELSE "returned",
                              !.value = run.value]
                /\ currentDirectory' = run.state.currentDirectory
                /\ environment' = run.state.environment
                /\ processCwd' = run.state.processCwd
                /\ processEnv' = run.state.processEnv
                /\ engineAliases' = run.state.engineAliases
    /\ UNCHANGED <<isRunning, aliases, transactionStack, commandsExecuted,
                   recording, currentRecording, lastExec, txSeq, tx>>

\* executePipeline, one turn of the loop: the stage gets pipelineInput =
\* result and its value becomes result; after the last stage, return result
PipelineStage ==
    /\ eng.pc = "pipeline"
    /\ eng.engine = "js"
    /\ LET k   == eng.i + 1
           run == executeSingleCommand(ShellState, eng.line[k])
           ran == [eng EXCEPT !.i = k,
                              !.received = Append(@, eng.result),
                              !.started = Append(@, k)]
       IN  /\ eng' = IF run.threw
                     THEN [ran EXCEPT !.pc = "done", !.outcome = "threw",
                                      !.failed = k, !.error = run.value,
                                      !.value = run.value]
                     ELSE [ran EXCEPT
                             !.result = run.value,
                             !.results = Append(@, run.value),
                             !.pc = IF k = Len(eng.line) THEN "done"
                                    ELSE "pipeline",
                             !.outcome = IF k = Len(eng.line) THEN "returned"
                                         ELSE "none",
                             !.value = IF k = Len(eng.line) THEN run.value
                                       ELSE Null]
           /\ currentDirectory' = run.state.currentDirectory
           /\ environment' = run.state.environment
           /\ processCwd' = run.state.processCwd
           /\ processEnv' = run.state.processEnv
           /\ engineAliases' = run.state.engineAliases
    /\ UNCHANGED <<isRunning, aliases, transactionStack, commandsExecuted,
                   commandHistory, recording, currentRecording, lastExec,
                   txSeq, tx>>

\* the segments handed to the native engine (the kernel's parser promotes a
\* line with a scripted segment before it gets here)
CppSegments == {Pwd, CdTmp, MkdirCmd, TrueCmd}

CppLines == SeqsUpTo(CppSegments, MaxStages) \ {<<>>}

\* the names register_builtin_commands registers
NativeCommands ==
    {"ls", "cd", "pwd", "mkdir", "rm", "cp", "mv", "cat", "ps", "kill",
     "help", "exit"}

\* OrionExecutionEngine::execute_single_command with a context whose args
\* are empty: the native handler's object, else the system placeholder; an
\* exception becomes an object of type "error"
execute_single_command(cwd, command) ==
    IF command \in NativeCommands
    THEN CASE command = "pwd" ->
                 [cwd |-> cwd, type |-> "string", value |-> cwd]
           [] command = "cd" ->
                 \* no argument in the context: $HOME
                 [cwd |-> HomeDir, type |-> "string",
                  value |-> "Changed directory"]
           [] command = "mkdir" ->
                 [cwd |-> cwd, type |-> "error",
                  value |-> "mkdir: missing directory name"]
           [] OTHER ->
                 [cwd |-> cwd, type |-> "string", value |-> "done"]
    ELSE [cwd |-> cwd, type |-> "string", value |-> "System command executed"]

\* OrionExecutionEngine::execute_pipeline(commands, context), entered
execute_pipeline(line) ==
    /\ eng.pc = "idle"
    /\ commandHistory < MaxExec
    /\ commandHistory' = commandHistory + 1
    /\ eng' = [IdleEng EXCEPT !.engine = "cpp", !.line = line,
                              !.pc = "pipeline"]
    /\ UNCHANGED <<isRunning, currentDirectory, environment, aliases,
                   transactionStack, commandsExecuted, processCwd, processEnv,
                   engineAliases, recording, currentRecording, lastExec,
                   txSeq, tx>>

\* one turn of its loop: parse(cmd); a scripted text has no commands and is
\* passed over; else result = execute_single_command(commands[0], context),
\* the same context for every stage
CppStage ==
    /\ eng.pc = "pipeline"
    /\ eng.engine = "cpp"
    /\ LET k    == eng.i + 1
           last == k = Len(eng.line)
           run  == execute_single_command(processCwd, eng.line[k].name)
       IN  IF isObjectPipelineMode(<<eng.line[k]>>)
           THEN /\ eng' = [eng EXCEPT
                             !.i = k,
                             !.pc = IF last THEN "done" ELSE "pipeline",
                             !.outcome = IF last THEN "returned" ELSE "none",
                             !.value = IF last THEN eng.result ELSE Null]
                /\ UNCHANGED processCwd
           ELSE /\ eng' = [eng EXCEPT
                             !.i = k,
                             !.received = Append(@, Null),
                             !.started = Append(@, k),
                             !.result = run.value,
                             !.results = Append(@, run.value),
                             !.failed = IF @ = 0 /\ run.type = "error"
                                        THEN k ELSE @,
                             !.error = IF eng.failed = 0 /\ run.type = "error"
                                       THEN run.value ELSE @,
                             !.pc = IF last THEN "done" ELSE "pipeline",
                             !.outcome = IF last THEN "returned" ELSE "none",
                             !.value = IF last THEN run.value ELSE Null]
                /\ processCwd' = run.cwd
    /\ UNCHANGED <<isRunning, currentDirectory, environment, aliases,
                   transactionStack, commandsExecuted, processEnv,
                   engineAliases, commandHistory, recording, currentRecording,
                   lastExec, txSeq, tx>>

\* the caller has the value or the error; the engine is free again
EngineReturn ==
    /\ eng.pc = "done"
    /\ eng' = IdleEng
    /\ UNCHANGED shellVars

----------------------------------------------------------------------------
(* NexusTransaction (scripted layer) *)

\* what an operation does when called, and the rollback given with it
Operations == [fails : BOOLEAN, rollback : {"none", "returns", "throws"}]

IdleNt ==
    [pc |-> "building", executed |-> 0, results |-> <<>>, i |-> 0,
     ran |-> <<>>, logged |-> 0, outcome |-> "none", thrown |-> ""]

\* add(operation, rollback): push the operation, unshift the rollback
NexusTransaction_add(operation) ==
    /\ nt.pc = "building"
    /\ Len(ntOperations) < MaxOps
    /\ ntOperations' = Append(ntOperations, operation)
    /\ ntRollbackHandlers' =
          IF operation.rollback # "none"
          THEN <<[op |-> Len(ntOperations) + 1,
                  throws |-> operation.rollback = "throws"]>>
               \o ntRollbackHandlers
          ELSE ntRollbackHandlers
    /\ UNCHANGED nt

\* execute(): results = [], executed = 0; with no operation, return at once
NexusTransaction_execute ==
    /\ nt.pc = "building"
    /\ nt' = IF ntOperations = <<>>
             THEN [IdleNt EXCEPT !.pc = "done", !.outcome = "returned"]
             ELSE [IdleNt EXCEPT !.pc = "running"]
    /\ UNCHANGED <<ntOperations, ntRollbackHandlers>>

\* the loop body: await operation(); results.push(result); executed++
NtOperation ==
    /\ nt.pc = "running"
    /\ LET k == nt.executed + 1
       IN  nt' = IF ntOperations[k].fails
                 THEN [nt EXCEPT !.pc = "rollback", !.i = 0,
                                 !.thrown = "operation failed"]
                 ELSE [nt EXCEPT !.executed = k,
                                 !.results = Append(@, k),
                                 !.pc = IF k = Len(ntOperations)
                                        THEN "done" ELSE "running",
                                 !.outcome = IF k = Len(ntOperations)
                                             THEN "returned" ELSE "none"]
    /\ UNCHANGED <<ntOperations, ntRollbackHandlers>>

\* the catch block's loop: for i < executed && i < handlers.length, call
\* handlers[i] in a try whose catch logs; then throw error
NtRollback ==
    /\ nt.pc = "rollback"
    /\ nt' = IF nt.i < nt.executed /\ nt.i < Len(ntRollbackHandlers)
             THEN [nt EXCEPT !.i = @ + 1,
                             !.ran = Append(@, ntRollbackHandlers[nt.i + 1].op),
                             !.logged = IF ntRollbackHandlers[nt.i + 1].throws
                                        THEN @ + 1 ELSE @]
             ELSE [nt EXCEPT !.pc = "done", !.outcome = "threw"]
    /\ UNCHANGED <<ntOperations, ntRollbackHandlers>>

----------------------------------------------------------------------------
(* ObjectBridge: the fs, proc and net surfaces *)

FilePath == "/etc/passwd"
Url      == "http://host/"
Pid      == "1"

\* the checkPermission calls of one method, in order: the audit log after
\* them and what each returned
RECURSIVE CheckAll(_, _, _)
CheckAll(log, perms, keys) ==
    IF keys = <<>> THEN [log |-> log, calls |-> <<>>]
    ELSE LET prev == CheckAll(log, perms, SubSeq(keys, 1, Len(keys) - 1))
             this == CheckOutcome(prev.log, perms, keys[Len(keys)])
         IN  [log |-> this.log, calls |-> Append(prev.calls, this.call)]

\* a bridge method: await checkPermission(key) for each key, the values
\* returned are dropped, then the work
BridgeMethod(method, keys, effects) ==
    /\ Len(auditLog) + Len(keys) <= MaxAudit
    /\ \E all \in {CheckAll(auditLog, permissions, keys)} :
          LET threw == \E n \in 1..Len(all.calls) : all.calls[n].threw
          IN  /\ auditLog' = all.log
              /\ lastBridge' =
                    [method |-> method,
                     checks |-> [n \in 1..Len(all.calls) |->
                                    [permission |-> all.calls[n].permission,
                                     granted |-> all.calls[n].result]],
                     outcome |-> IF threw THEN "SyntaxError" ELSE "returned",
                     effects |-> IF threw THEN {} ELSE effects]
    /\ UNCHANGED <<permissions, capabilities, securityPolicies, lastCall>>

readFile == BridgeMethod("fs.readFile", <<<<"fs:", "read:", FilePath>>>>,
                         {"fs.readFile"})

writeFile == BridgeMethod("fs.writeFile", <<<<"fs:", "write:", FilePath>>>>,
                          {"fs.writeFile"})

listDir == BridgeMethod("fs.listDir", <<<<"fs:", "read:", FilePath>>>>,
                        {"fs.readdir"})

stat == BridgeMethod("fs.stat", <<<<"fs:", "read:", FilePath>>>>, {"fs.stat"})

\* watch issues no permission check
watch == BridgeMethod("fs.watch", <<>>, {"fs.watch"})

exec == BridgeMethod("proc.exec", <<<<"proc:", "exec">>>>, {"spawn"})

list == BridgeMethod("proc.list", <<<<"proc:", "list">>>>, {"process list"})

info == BridgeMethod("proc.info", <<<<"proc:", "info">>>>, {"process info"})

kill == BridgeMethod("proc.kill", <<<<"proc:", "kill:", Pid>>>>,
                     {"process.kill"})

get == BridgeMethod("net.get", <<<<"net:", "http:", Url>>>>, {"fetch"})

post == BridgeMethod("net.post", <<<<"net:", "http:", Url>>>>, {"fetch"})

download ==
    BridgeMethod("net.download",
                 << <<"net:", "download:", Url>>, <<"fs:", "write:", FilePath>> >>,
                 {"fetch", "fs.writeFile"})

----------------------------------------------------------------------------
(* Marshalling between the scripted and the native domain *)

\* scripted values: t is what typeof / Array.isArray tell of the value
JsNull      == [t |-> "null"]
JsUndefined == [t |-> "undefined"]
JsBoolean(b) == [t |-> "boolean", v |-> b]
\* booleans and numbers are written as their literals
JsNumber(n)  == [t |-> "number", v |-> n]
WholeNumbers == {"0", "1"}
JsString(s)  == [t |-> "string", v |-> s]
JsArray(items)   == [t |-> "array", items |-> items]
JsObject(fields) == [t |-> "object", fields |-> fields]
JsArrayBuffer(bytes) == [t |-> "arraybuffer", bytes |-> bytes]

\* ObjectBridge.detectType (typeof null is 'object')
detectType(value) ==
    CASE value.t = "string"  -> "string"
      [] value.t = "number"  -> "number"
      [] value.t = "boolean" -> "boolean"
      [] value.t = "array"   -> "array"
      [] value.t \in {"object", "null", "arraybuffer"} -> "object"
      [] OTHER -> "string"

\* the converters of setupTypeConverters, the same in both directions:
\* String(value), Number(value), Boolean(value), the array itself or
\* [value], the object itself or {value}
TypeConverter(type, value) ==
    CASE type = "string" ->
            IF value.t = "string" THEN value ELSE JsString("undefined")
      [] type = "array" ->
            IF value.t = "array" THEN value ELSE JsArray(<<value>>)
      [] type = "object" ->
            IF value.t \in {"object", "null", "array", "arraybuffer"}
            THEN value
            ELSE JsObject(<<[key |-> "value", val |-> value]>>)
      [] OTHER -> value

\* ObjectBridge.fromJS(value) and toJS(value) with type = 'auto'
fromJS(value) == TypeConverter(detectType(value), value)

toJS(value) == TypeConverter(detectType(value), value)

\* StellarObjectBridge::js_to_nexus: metadata.type and the variant held
js_to_nexus(js_value) ==
    CASE js_value.t \in {"null", "undefined"} ->
            [type |-> "null", alt |-> "nullptr_t"]
      [] js_value.t = "boolean" ->
            [type |-> "boolean", alt |-> "bool", b |-> js_value.v]
      [] js_value.t = "number" ->
            \* IsInt32
            IF js_value.v \in WholeNumbers
            THEN [type |-> "number", alt |-> "int64_t", n |-> js_value.v]
            ELSE [type |-> "number", alt |-> "double", n |-> js_value.v]
      [] js_value.t = "string" ->
            [type |-> "string", alt |-> "string", s |-> js_value.v]
      [] js_value.t = "arraybuffer" ->
            [type |-> "buffer", alt |-> "vector", bytes |-> js_value.bytes]
      [] OTHER ->
            [type |-> "object", alt |-> "string", s |-> "[Object]"]

\* StellarObjectBridge::nexus_to_js: no type converter is registered
\* (setup_default_type_converters is empty), so the variant decides
nexus_to_js(obj) ==
    CASE obj.alt = "nullptr_t" -> JsNull
      [] obj.alt = "bool"      -> JsBoolean(obj.b)
      [] obj.alt = "int64_t"   -> JsNumber(obj.n)
      [] obj.alt = "double"    -> JsNumber(obj.n)
      [] obj.alt = "string"    -> JsString(obj.s)
      [] obj.alt = "vector"    -> JsArrayBuffer(obj.bytes)
      [] OTHER                 -> JsUndefined

\* the values marshalled
Scalars == {JsNull, JsBoolean("true"), JsBoolean("false"), JsNumber("0"),
            JsNumber("1"), JsNumber("1.5"), JsString(""), JsString("a")}

MarshalledValues ==
    Scalars
    \cup {JsArray(items) : items \in SeqsUpTo({JsNumber("1"), JsString("a")},
                                              MaxItems)}
    \cup {JsObject(<<>>)}
    \cup {JsObject(<<[key |-> "k", val |-> x]>>) : x \in Scalars}

Bridges == {"js", "cpp"}

IdleMarshal == [pc |-> "idle", bridge |-> "js", original |-> JsNull,
                scripted |-> JsNull,
                native |-> [type |-> "null", alt |-> "nullptr_t"],
                js |-> JsNull, trips |-> 0]

\* a scripted value is handed to a bridge
Marshal(bridge, value) ==
    /\ marshal.pc = "idle"
    /\ marshal' = [IdleMarshal EXCEPT !.pc = "scripted", !.bridge = bridge,
                                      !.original = value,
                                      !.scripted = value]

\* to the native domain: fromJS in the scripted bridge (the value stays a
\* scripted value), js_to_nexus in the native one
ToNative ==
    /\ marshal.pc = "scripted"
    /\ marshal.trips < MaxTrips
    /\ marshal' = IF marshal.bridge = "js"
                  THEN [marshal EXCEPT !.pc = "native",
                                       !.js = fromJS(marshal.scripted)]
                  ELSE [marshal EXCEPT !.pc = "native",
                                       !.native = js_to_nexus(marshal.scripted)]

\* and back
ToScripted ==
    /\ marshal.pc = "native"
    /\ marshal' = [marshal EXCEPT
                      !.pc = "scripted",
                      !.trips = @ + 1,
                      !.scripted = IF marshal.bridge = "js"
                                   THEN toJS(marshal.js)
                                   ELSE nexus_to_js(marshal.native)]

\* the value is dropped
MarshalDone ==
    /\ marshal.pc = "scripted"
    /\ marshal.trips > 0
    /\ marshal' = IdleMarshal

----------------------------------------------------------------------------
(* Command-line parsing: CommandEngine.parseCommand (scripted engine) and
   QuantumParser::parse_single_command (native kernel). A string is the
   sequence of its characters. *)


\* the values of flags: the boolean true, or a string
BoolTrue == [kind |-> "bool", s |-> <<>>]
Str(s)   == [kind |-> "str", s |-> s]

StartsWith(s, prefix) ==
    /\ Len(s) >= Len(prefix)
    /\ SubSeq(s, 1, Len(prefix)) = prefix

\* String.prototype.slice(n) / std::string::substr(n)
Slice(s, n) == SubSeq(s, n + 1, Len(s))

\* the position of the first ch in s counted from 1, 0 if there is none
Find(s, ch) ==
    IF \E i \in 1..Len(s) : s[i] = ch
    THEN CHOOSE i \in 1..Len(s) : s[i] = ch /\ \A j \in 1..(i-1) : s[j] # ch
    ELSE 0

\* String.prototype.split(sep): the pieces between the separators, empty
\* pieces included
RECURSIVE SplitFrom(_, _, _, _, _)
SplitFrom(s, sep, i, parts, current) ==
    IF i > Len(s) THEN Append(parts, current)
    ELSE IF s[i] = sep
         THEN SplitFrom(s, sep, i + 1, Append(parts, current), <<>>)
         ELSE SplitFrom(s, sep, i + 1, parts, Append(current, s[i]))

Split(s, sep) == SplitFrom(s, sep, 1, <<>>, <<>>)

\* Array.prototype.filter(part => part.trim()): the parts that are not blank
NonBlank(parts) ==
    SelectSeq(parts, LAMBDA part : \E i \in 1..Len(part) : part[i] # " ")

\* the loop of parseCommand over parts[from..]
RECURSIVE parseParts(_, _, _, _)
parseParts(parts, from, args, flags) ==
    IF from > Len(parts) THEN [args |-> args, flags |-> flags]
    ELSE LET part == parts[from]
         IN  IF StartsWith(part, <<"-", "-">>)
             THEN LET kv == Split(Slice(part, 2), "=")
                      key == kv[1]
                      \* value || true: undefined and '' both give true
                      value == IF Len(kv) >= 2 /\ kv[2] # <<>>
                               THEN Str(kv[2]) ELSE BoolTrue
                  IN  parseParts(parts, from + 1, args,
                                 MapSet(flags, key, value))
             ELSE IF StartsWith(part, <<"-">>)
             THEN parseParts(parts, from + 1, args,
                             MapSet(flags, Slice(part, 1), BoolTrue))
             ELSE parseParts(parts, from + 1, Append(args, part), flags)

\* CommandEngine.parseCommand: input.split(' ').filter(...), parts[0] is
\* the command
parseCommand(input) ==
    LET parts == NonBlank(Split(input, " "))
        rest == parseParts(parts, 2, <<>>, <<>>)
    IN  [command |-> IF parts = <<>> THEN <<>> ELSE parts[1],
         args |-> rest.args, flags |-> rest.flags]

\* QuantumParser::tokenize from character i on: quote is the open quote
\* character, "" outside quotes; the quote characters stay in the token
RECURSIVE tokenizeFrom(_, _, _, _, _)
tokenizeFrom(input, i, tokens, current_token, quote) ==
    IF i > Len(input)
    THEN IF current_token # <<>> THEN Append(tokens, current_token)
                                 ELSE tokens
    ELSE LET c == input[i]
         IN  IF quote = "" /\ c = "\""
             THEN tokenizeFrom(input, i + 1, tokens,
                               Append(current_token, c), c)
             ELSE IF quote # "" /\ c = quote
             THEN tokenizeFrom(input, i + 1, tokens,
                               Append(current_token, c), "")
             ELSE IF quote = "" /\ c = " "
             THEN IF current_token # <<>>
                  THEN tokenizeFrom(input, i + 1,
                                    Append(tokens, current_token), <<>>, "")
                  ELSE tokenizeFrom(input, i + 1, tokens, <<>>, "")
             ELSE tokenizeFrom(input, i + 1, tokens,
                               Append(current_token, c), quote)

tokenize(input) == tokenizeFrom(input, 1, <<>>, <<>>, "")

\* QuantumParser::is_quoted_string
is_quoted_string(token) ==
    /\ Len(token) >= 2
    /\ token[1] = "\""
    /\ token[Len(token)] = "\""

\* QuantumParser::unquote_string
unquote_string(quoted) ==
    IF is_quoted_string(quoted)
    THEN SubSeq(quoted, 2, Len(quoted) - 1)
    ELSE quoted

\* the short flags of a token from character j on
RECURSIVE shortFlags(_, _, _)
shortFlags(token, j, flags) ==
    IF j > Len(token) THEN flags
    ELSE shortFlags(token, j + 1,
                    MapSet(flags, <<token[j]>>, Str(<<"t", "r", "u", "e">>)))

\* the loop of parse_single_command over tokens[from..]
RECURSIVE parseTokens(_, _, _, _)
parseTokens(tokens, from, args, flags) ==
    IF from > Len(tokens) THEN [args |-> args, flags |-> flags]
    ELSE LET token == tokens[from]
             eq_pos == Find(token, "=")
         IN  IF StartsWith(token, <<"-", "-">>)
             THEN IF eq_pos # 0
                  THEN parseTokens(tokens, from + 1, args,
                          MapSet(flags, SubSeq(token, 3, eq_pos - 1),
                                 Str(unquote_string(Slice(token, eq_pos)))))
                  ELSE parseTokens(tokens, from + 1, args,
                          MapSet(flags, Slice(token, 2),
                                 Str(<<"t", "r", "u", "e">>)))
             ELSE IF StartsWith(token, <<"-">>) /\ Len(token) > 1
             THEN parseTokens(tokens, from + 1, args,
                              shortFlags(token, 2, flags))
             ELSE parseTokens(tokens, from + 1,
                              Append(args, unquote_string(token)), flags)

\* QuantumParser::parse_single_command
parse_single_command(command_str) ==
    LET tokens == tokenize(command_str)
        rest == parseTokens(tokens, 2, <<>>, <<>>)
    IN  IF tokens = <<>>
        THEN [command |-> <<>>, args |-> <<>>, flags |-> <<>>]
        ELSE [command |-> tokens[1], args |-> rest.args,
              flags |-> rest.flags]

\* the pieces command lines are put together from
Pieces == { <<" ">>, <<"-">>, <<"-", "-">>, <<"a">>, <<"b">>,
            <<"=">>, <<"\"", "a", " ", "b", "\"">>, <<".", "t">> }

RECURSIVE Concat(_)
Concat(pieces) ==
    IF pieces = <<>> THEN <<>> ELSE Head(pieces) \o Concat(Tail(pieces))

\* the command lines parsed: ls, a space, and up to MaxPieces pieces
CommandLines ==
    { <<"l", "s", " ">> \o Concat(pieces) :
          pieces \in SeqsUpTo(Pieces, MaxPieces) }

Parsers == {"js", "cpp"}

NotParsed == [parser |-> "none", input |-> <<>>,
              result |-> [command |-> <<>>, args |-> <<>>, flags |-> <<>>]]

\* a command line is parsed by one of the two parsers
Parse(parser, input) ==
    /\ parsed.parser = "none"
    /\ parsed' = [parser |-> parser, input |-> input,
                  result |-> IF parser = "js" THEN parseCommand(input)
                             ELSE parse_single_command(input)]

\* the caller takes the parsed command
ParseReturn ==
    /\ parsed.parser # "none"
    /\ parsed' = NotParsed

----------------------------------------------------------------------------
(* REPL.handleInput: single-line and multiline mode *)


\* String.prototype.trim
RECURSIVE TrimStart(_)
TrimStart(s) ==
    IF s # <<>> /\ Head(s) \in {" ", "\n"} THEN TrimStart(Tail(s)) ELSE s

RECURSIVE TrimEnd(_)
TrimEnd(s) ==
    IF s # <<>> /\ s[Len(s)] \in {" ", "\n"}
    THEN TrimEnd(SubSeq(s, 1, Len(s) - 1))
    ELSE s

Trim(s) == TrimEnd(TrimStart(s))

EndsWith(s, ch) == s # <<>> /\ s[Len(s)] = ch

\* String.prototype.includes
Includes(s, sub) ==
    \E i \in 1..(Len(s) - Len(sub) + 1) :
        SubSeq(s, i, i + Len(sub) - 1) = sub

\* REPL.isMultilineStart
isMultilineStart(input) ==
    \/ EndsWith(input, "{")
    \/ EndsWith(input, "[")
    \/ EndsWith(input, "(")
    \/ Includes(input, <<"f", "u", "n", "c", "t", "i", "o", "n">>)
    \/ Includes(input, <<"i", "f", " ", "(">>)
    \/ Includes(input, <<"f", "o", "r", " ", "(">>)
    \/ Includes(input, <<"w", "h", "i", "l", "e", " ", "(">>)
    \/ Includes(input, <<"t", "r", "y", " ", "{">>)

Multi   == <<"m", "u", "l", "t", "i">>
PwdLine == <<"p", "w", "d">>

\* the lines typed: empty, blank, multi, a command, a line that opens a
\* block, a line that closes it
ReplLines == { <<>>, <<" ", " ">>, Multi, PwdLine,
               <<"x", " ", "{">>, <<"}">> }

\* the command shell.executeCommand is given for a text
ReplCommand(text) == IF text = PwdLine THEN Pwd ELSE Nonexistent

NewRepl == [inMultilineMode |-> FALSE, multilineBuffer |-> <<>>,
            handled |-> 0, lastInput |-> <<>>,
            executions |-> 0, lastExecuted |-> <<>>]

\* the part of executeInput(input) that writes the REPL's own fields:
\* handleBuiltinCommand's 'multi' sets multiline mode and empties the
\* buffer (of the built-in commands only multi is among the lines typed)
executeInputRepl(r, input) ==
    LET executed == [r EXCEPT !.executions = @ + 1,
                              !.lastExecuted = Trim(input)]
    IN  IF Split(Trim(input), " ")[1] = Multi
        THEN [executed EXCEPT !.inMultilineMode = TRUE,
                              !.multilineBuffer = <<>>]
        ELSE executed

\* the part of executeInput(input) that acts on the shell: a text that is
\* no built-in command goes to shell.executeCommand, whose error is caught
executeInputShell(input) ==
    IF Split(Trim(input), " ")[1] = Multi
    THEN UNCHANGED <<secVars, lastCall, shellVars>>
    ELSE ExecuteCommand(ReplCommand(Trim(input)))

\* REPL.handleInput(input), the handler of readline's 'line' event
handleInput(input) ==
    /\ repl.handled < MaxInputs
    /\ LET trimmedInput == Trim(input)
           taken == [repl EXCEPT !.handled = @ + 1, !.lastInput = input]
       IN  IF trimmedInput = <<>>
           THEN \* empty input: prompt again
                /\ repl' = taken
                /\ UNCHANGED <<secVars, lastCall, shellVars>>
           ELSE IF repl.inMultilineMode
           THEN IF trimmedInput = <<>>
                THEN /\ repl' = [executeInputRepl(taken, repl.multilineBuffer)
                                    EXCEPT !.multilineBuffer = <<>>,
                                           !.inMultilineMode = FALSE]
                     /\ executeInputShell(repl.multilineBuffer)
                ELSE /\ repl' = [taken EXCEPT
                                    !.multilineBuffer =
                                        @ \o <<"\n">> \o input]
                     /\ UNCHANGED <<secVars, lastCall, shellVars>>
           ELSE IF isMultilineStart(trimmedInput)
           THEN /\ repl' = [taken EXCEPT !.inMultilineMode = TRUE,
                                         !.multilineBuffer = input]
                /\ UNCHANGED <<secVars, lastCall, shellVars>>
           ELSE /\ repl' = executeInputRepl(taken, trimmedInput)
                /\ executeInputShell(trimmedInput)

\* the handler of readline's 'SIGINT' event: multiline mode is cancelled
sigint ==
    /\ repl.inMultilineMode
    /\ repl' = [repl EXCEPT !.inMultilineMode = FALSE,
                            !.multilineBuffer = <<>>]
    /\ UNCHANGED <<secVars, lastCall, shellVars>>

----------------------------------------------------------------------------
(* Specifications *)

ntVars == <<ntOperations, ntRollbackHandlers, nt>>

auxVars == <<marshal, parsed, repl>>

extVars == <<lastBridge, sandbox, ntVars, eng, recorder, replaySession, auxVars>>

vars == <<secVars, lastCall, shellVars, extVars>>

Init ==
    /\ permissions = <<>>
    /\ capabilities = {}
    /\ securityPolicies = <<>>
    /\ auditLog = <<>>
    /\ lastCall = [op |-> "constructor", permission |-> <<>>, result |-> FALSE,
                   threw |-> FALSE, auditBefore |-> 0, auditAtReport |-> 0]
    /\ isRunning = FALSE
    /\ currentDirectory = HomeDir
    /\ environment = Undefined
    /\ aliases = <<>>
    /\ transactionStack = <<>>
    /\ commandsExecuted = 0
    /\ processCwd = HomeDir
    /\ processEnv = Undefined
    /\ engineAliases = <<>>
    /\ commandHistory = 0
    /\ recording = FALSE
    /\ currentRecording = <<>>
    /\ lastExec = [input |-> Pwd, granted |-> FALSE, checked |-> FALSE,
                   dispatched |-> FALSE, threw |-> FALSE, value |-> ""]
    /\ txSeq = 0
    /\ tx = [c \in Callers |-> IdleTx]
    /\ lastBridge = [method |-> "none", checks |-> <<>>,
                     outcome |-> "none", effects |-> {}]
    /\ sandbox = NoSandbox
    /\ eng = IdleEng
    /\ recorder = [pc |-> "idle", op |-> "none", threw |-> FALSE,
                   recordingId |-> 0, recordings |-> <<>>,
                   saved |-> NoRecording, returned |-> NoRecording]
    /\ replaySession = IdleReplay
    /\ marshal = IdleMarshal
    /\ parsed = NotParsed
    /\ repl = NewRepl
    /\ ntOperations = <<>>
    /\ ntRollbackHandlers = <<>>
    /\ nt = IdleNt

\* the caller takes the results or the error: the activation ends
TxReturn(c) ==
    /\ tx[c].pc = "done"
    /\ tx' = [tx EXCEPT ![c] = IdleTx]
    /\ UNCHANGED <<secVars, lastCall, isRunning, currentDirectory, environment,
                   aliases, transactionStack, commandsExecuted, processCwd,
                   processEnv, engineAliases, commandHistory, recording,
                   currentRecording, lastExec, txSeq>>

\* no executeTransaction call is in progress
Quiescent == \A c \in Callers : tx[c].pc = "idle"

\* the shell driven by one thread of control that awaits each call: a call
\* starts when the call before it has returned or thrown
TxNext ==
    \/ Quiescent /\ start /\ UNCHANGED extVars
    \/ \E commands \in CommandLists, onRollback \in OnRollbacks :
          /\ Quiescent
          /\ executeTransaction(1, commands, onRollback)
          /\ UNCHANGED extVars
    \/ TxCommand(1) /\ UNCHANGED extVars
    \/ TxCommit(1) /\ UNCHANGED extVars
    \/ rollbackTransaction(1) /\ UNCHANGED extVars
    \/ TxCallback(1) /\ UNCHANGED extVars
    \/ TxReturn(1) /\ UNCHANGED extVars

\* top-level executeCommand calls while permissions are granted and revoked
ExecNext ==
    \/ start /\ UNCHANGED extVars
    \/ stop /\ UNCHANGED extVars
    \/ \E input \in Commands : ExecuteCommand(input) /\ UNCHANGED extVars
    \/ grantPermission(CommandExecute) /\ UNCHANGED <<shellVars, extVars>>
    \/ revokePermission(CommandExecute) /\ UNCHANGED <<shellVars, extVars>>

ExecSpec == Init /\ [][ExecNext]_vars

TxSpec == Init /\ [][TxNext]_vars

\* the commands of overlapping transactions
OverlapCommands == {CdTmp, Nonexistent}

OverlapLists == SeqsUpTo(OverlapCommands, MaxCmds)

\* two callers whose executeTransaction calls overlap: neither awaits the
\* other, so their steps interleave at every await
TxOverlapNext ==
    \/ Quiescent /\ start /\ UNCHANGED extVars
    \/ \E c \in Callers, commands \in OverlapLists :
          /\ isRunning
          /\ executeTransaction(c, commands, "none")
          /\ UNCHANGED extVars
    \/ \E c \in Callers : TxCommand(c) /\ UNCHANGED extVars
    \/ \E c \in Callers : TxCommit(c) /\ UNCHANGED extVars
    \/ \E c \in Callers : rollbackTransaction(c) /\ UNCHANGED extVars
    \/ \E c \in Callers : TxReturn(c) /\ UNCHANGED extVars

TxOverlapSpec == Init /\ [][TxOverlapNext]_vars

\* the capability store on its own: keys granted, revoked and checked
FsRead   == <<"fs:", "read">>
ProcKill == <<"proc:", "kill">>
FsStar   == <<"fs:", "*">>
AnyStar  == <<"*">>

PermKeys  == {FsRead, FsStar, AnyStar}
CheckKeys == {FsRead, ProcKill}

CapabilityNames == {"shell:basic"}

AllowLists == {<<>>, <<FsStar>>}

\* configurations handed to importConfig (the shape exportConfig returns)
Configs ==
    { [permissions |-> <<>>, capabilities |-> {}, policies |-> <<>>],
      [permissions |-> <<[key |-> FsRead, val |-> TRUE]>>,
       capabilities |-> {"shell:basic"}, policies |-> <<>>],
      [permissions |-> <<[key |-> FsStar, val |-> TRUE],
                         [key |-> FsRead, val |-> FALSE],
                         [key |-> FsStar, val |-> FALSE]>>,
       capabilities |-> {}, policies |-> <<>>] }

SecNext ==
    \/ \E k \in PermKeys : grantPermission(k)
          /\ UNCHANGED <<shellVars, extVars>>
    \/ \E k \in PermKeys : revokePermission(k)
          /\ UNCHANGED <<shellVars, extVars>>
    \/ \E k \in CheckKeys : checkPermission(k)
          /\ UNCHANGED <<shellVars, extVars>>
    \/ \E n \in CapabilityNames : addCapability(n)
          /\ UNCHANGED <<shellVars, extVars>>
    \/ \E n \in CapabilityNames : removeCapability(n)
          /\ UNCHANGED <<shellVars, extVars>>
    \/ clearAuditLog /\ UNCHANGED <<shellVars, extVars>>
    \/ \E allowed \in AllowLists : createSandbox(allowed)
          /\ UNCHANGED <<shellVars, lastBridge, ntVars, eng, recorder, replaySession, auxVars>>
    \/ \E config \in Configs : importConfig(config)
          /\ UNCHANGED <<shellVars, extVars>>

SecSpec == Init /\ [][SecNext]_vars

\* the policies asked for, one of them not loaded
PolicyNames == {"sandbox", "developer", "production"}

ProcKillKeys == {<<"proc:", "kill:", "1">>, <<"proc:", "kill:", "2">>}

\* the key net.download checks for the url "fs:x"
NetDownloadFsUrl == <<"net:", "download:", "fs:", "x">>

PolicyCheckKeys == ProcKillKeys \cup {FsRead, NetDownloadFsUrl}

\* a security context that is initialized, has policies applied and is asked
PolicyNext ==
    \/ initialize /\ UNCHANGED <<shellVars, extVars>>
    \/ \E policyName \in PolicyNames :
          applyPolicy(policyName) /\ UNCHANGED <<shellVars, extVars>>
    \/ \E k \in PolicyCheckKeys :
          checkPermission(k) /\ UNCHANGED <<shellVars, extVars>>
    \/ clearAuditLog /\ UNCHANGED <<shellVars, extVars>>

PolicySpec == Init /\ [][PolicyNext]_vars

\* lines given to the command engine and pipelines given to the native one
EngineNext ==
    \/ \E line \in Lines :
          execute(line)
          /\ UNCHANGED <<secVars, lastCall, lastBridge, sandbox, ntVars, recorder, replaySession, auxVars>>
    \/ PipelineStage
          /\ UNCHANGED <<secVars, lastCall, lastBridge, sandbox, ntVars, recorder, replaySession, auxVars>>
    \/ \E line \in CppLines :
          execute_pipeline(line)
          /\ UNCHANGED <<secVars, lastCall, lastBridge, sandbox, ntVars, recorder, replaySession, auxVars>>
    \/ CppStage
          /\ UNCHANGED <<secVars, lastCall, lastBridge, sandbox, ntVars, recorder, replaySession, auxVars>>
    \/ EngineReturn
          /\ UNCHANGED <<secVars, lastCall, lastBridge, sandbox, ntVars, recorder, replaySession, auxVars>>

EngineSpec == Init /\ [][EngineNext]_vars

\* the inputs recorded and executed while recording
RecordedInputs == {Pwd, Nonexistent}

\* a started shell whose recorder is started, fed and stopped
RecNext ==
    \/ start /\ UNCHANGED extVars
    \/ startRecording
          /\ UNCHANGED <<secVars, lastCall, lastBridge, sandbox, ntVars, eng,
                       replaySession, auxVars>>
    \/ stopRecording
          /\ UNCHANGED <<secVars, lastCall, lastBridge, sandbox, ntVars, eng,
                       replaySession, auxVars>>
    \/ saveRecording
          /\ UNCHANGED <<secVars, lastCall, lastBridge, sandbox, ntVars, eng,
                       replaySession, auxVars>>
    \/ StopRecordingReturn
          /\ UNCHANGED <<secVars, lastCall, lastBridge, sandbox, ntVars, eng,
                       replaySession, auxVars>>
    \/ \E input \in RecordedInputs :
          RecorderRecordCommand(input) /\ UNCHANGED <<secVars, lastCall, extVars>>
    \/ \E commandId \in 1..MaxRecorded :
          RecorderRecordCommandResult(commandId, "value")
          /\ UNCHANGED <<secVars, lastCall, extVars>>
    \/ \E input \in RecordedInputs :
          /\ Len(currentRecording) < MaxRecorded
          /\ ExecuteCommand(input)
          /\ UNCHANGED extVars

RecSpec == Init /\ [][RecNext]_vars

\* a started shell whose recordings are replayed while commands are
\* executed and recordings are started and stopped
ReplayNext ==
    \/ start /\ UNCHANGED extVars
    \/ startRecording
          /\ UNCHANGED <<secVars, lastCall, lastBridge, sandbox, ntVars, eng,
                       replaySession, auxVars>>
    \/ stopRecording
          /\ UNCHANGED <<secVars, lastCall, lastBridge, sandbox, ntVars, eng,
                       replaySession, auxVars>>
    \/ saveRecording
          /\ UNCHANGED <<secVars, lastCall, lastBridge, sandbox, ntVars, eng,
                       replaySession, auxVars>>
    \/ StopRecordingReturn
          /\ UNCHANGED <<secVars, lastCall, lastBridge, sandbox, ntVars, eng,
                       replaySession, auxVars>>
    \/ \E input \in RecordedInputs :
          /\ Len(currentRecording) < MaxRecorded
          /\ ExecuteCommand(input)
          /\ UNCHANGED extVars
    \/ \E recordingId \in 1..MaxRecordings, startFrom \in 0..MaxRecorded :
          replay(recordingId, startFrom)
          /\ UNCHANGED <<lastBridge, sandbox, ntVars, eng, auxVars>>
    \/ ReplayStep /\ UNCHANGED <<lastBridge, sandbox, ntVars, eng, auxVars>>
    \/ ReplayReturn /\ UNCHANGED <<lastBridge, sandbox, ntVars, eng, auxVars>>

ReplaySpec == Init /\ [][ReplayNext]_vars

\* values handed to the two bridges and taken back
MarshalNext ==
    \/ \E bridge \in Bridges, value \in MarshalledValues :
          Marshal(bridge, value)
          /\ UNCHANGED <<secVars, lastCall, shellVars, lastBridge, sandbox,
                         ntVars, eng, recorder, replaySession, parsed, repl>>
    \/ ToNative
          /\ UNCHANGED <<secVars, lastCall, shellVars, lastBridge, sandbox,
                         ntVars, eng, recorder, replaySession, parsed, repl>>
    \/ ToScripted
          /\ UNCHANGED <<secVars, lastCall, shellVars, lastBridge, sandbox,
                         ntVars, eng, recorder, replaySession, parsed, repl>>
    \/ MarshalDone
          /\ UNCHANGED <<secVars, lastCall, shellVars, lastBridge, sandbox,
                         ntVars, eng, recorder, replaySession, parsed, repl>>

MarshalSpec == Init /\ [][MarshalNext]_vars

\* command lines given to the two parsers
ParseNext ==
    \/ \E parser \in Parsers, input \in CommandLines :
          /\ Parse(parser, input)
          /\ UNCHANGED <<secVars, lastCall, shellVars, lastBridge, sandbox,
                         ntVars, eng, recorder, replaySession, marshal, repl>>
    \/ ParseReturn
          /\ UNCHANGED <<secVars, lastCall, shellVars, lastBridge, sandbox,
                         ntVars, eng, recorder, replaySession, marshal, repl>>

ParseSpec == Init /\ [][ParseNext]_vars

\* a started shell whose REPL is given lines
ReplNext ==
    \/ start
          /\ UNCHANGED extVars
    \/ \E input \in ReplLines :
          /\ isRunning
          /\ handleInput(input)
          /\ UNCHANGED <<lastBridge, sandbox, ntVars, eng, recorder,
                         replaySession, marshal, parsed>>
    \/ sigint
          /\ UNCHANGED <<lastBridge, sandbox, ntVars, eng, recorder,
                         replaySession, marshal, parsed>>

ReplSpec == Init /\ [][ReplNext]_vars

\* a scripted transaction: operations are added, then execute runs them
NtNext ==
    \/ \E operation \in Operations :
          /\ NexusTransaction_add(operation)
          /\ UNCHANGED <<secVars, lastCall, shellVars, lastBridge, sandbox, eng,
                       recorder, replaySession, auxVars>>
    \/ NexusTransaction_execute
          /\ UNCHANGED <<secVars, lastCall, shellVars, lastBridge, sandbox, eng,
                       recorder, replaySession, auxVars>>
    \/ NtOperation /\ UNCHANGED <<secVars, lastCall, shellVars, lastBridge, sandbox, eng,
                       recorder, replaySession, auxVars>>
    \/ NtRollback /\ UNCHANGED <<secVars, lastCall, shellVars, lastBridge, sandbox, eng,
                       recorder, replaySession, auxVars>>

NtSpec == Init /\ [][NtNext]_vars

\* the keys granted and revoked around bridge calls
BridgeKeys == {<<"fs:", "read:", FilePath>>, AnyStar}

BridgeNext ==
    \/ \E k \in BridgeKeys :
          grantPermission(k) /\ UNCHANGED <<shellVars, extVars>>
    \/ \E k \in BridgeKeys :
          revokePermission(k) /\ UNCHANGED <<shellVars, extVars>>
    \/ clearAuditLog /\ UNCHANGED <<shellVars, extVars>>
    \/ readFile /\ UNCHANGED <<shellVars, sandbox, ntVars, eng, recorder, replaySession, auxVars>>
    \/ writeFile /\ UNCHANGED <<shellVars, sandbox, ntVars, eng, recorder, replaySession, auxVars>>
    \/ listDir /\ UNCHANGED <<shellVars, sandbox, ntVars, eng, recorder, replaySession, auxVars>>
    \/ stat /\ UNCHANGED <<shellVars, sandbox, ntVars, eng, recorder, replaySession, auxVars>>
    \/ watch /\ UNCHANGED <<shellVars, sandbox, ntVars, eng, recorder, replaySession, auxVars>>
    \/ exec /\ UNCHANGED <<shellVars, sandbox, ntVars, eng, recorder, replaySession, auxVars>>
    \/ list /\ UNCHANGED <<shellVars, sandbox, ntVars, eng, recorder, replaySession, auxVars>>
    \/ info /\ UNCHANGED <<shellVars, sandbox, ntVars, eng, recorder, replaySession, auxVars>>
    \/ kill /\ UNCHANGED <<shellVars, sandbox, ntVars, eng, recorder, replaySession, auxVars>>
    \/ get /\ UNCHANGED <<shellVars, sandbox, ntVars, eng, recorder, replaySession, auxVars>>
    \/ post /\ UNCHANGED <<shellVars, sandbox, ntVars, eng, recorder, replaySession, auxVars>>
    \/ download /\ UNCHANGED <<shellVars, sandbox, ntVars, eng, recorder, replaySession, auxVars>>

BridgeSpec == Init /\ [][BridgeNext]_vars

----------------------------------------------------------------------------
(* Capability store: properties *)

AllKeys == PermKeys \cup CheckKeys

\* the entries of the grant map that are wildcard patterns matching key k
MatchingWildcards(m, k) ==
    {i \in 1..Len(m) : /\ IncludesStar(m[i].key)
                       /\ RegexTest(ReplaceFirstStar(m[i].key), k)}

\* exact key first, else the earliest matching wildcard, else deny
LookupByRule(m, k) ==
    IF k \in MapKeys(m)
    THEN \E i \in 1..Len(m) : m[i].key = k /\ m[i].val
    ELSE IF MatchingWildcards(m, k) # {}
         THEN LET first == CHOOSE i \in MatchingWildcards(m, k) :
                              \A j \in MatchingWildcards(m, k) : i <= j
              IN  m[first].val
         ELSE FALSE

C9_DeniedStaysDeniedWithoutGrant ==
    [][lastCall'.op # "grantPermission" =>
          \A k \in AllKeys :
             ~hasPermission(permissions, k) => ~hasPermission(permissions', k)]_vars

\* C9 (amended): a key that a check denies stays denied over every step that
\* is neither a grant nor a configuration import.
C9_DeniedStaysDeniedWithoutGrantOrImport ==
    [][lastCall'.op \notin {"grantPermission", "importConfig"} =>
          \A k \in AllKeys :
             ~hasPermission(permissions, k) => ~hasPermission(permissions', k)]_vars

\* a revoke has acted and the key is still denied, though a wildcard granted
\* later in the map matches it
C9_Witness ==
    /\ lastCall.op = "revokePermission"
    /\ lastCall.permission = FsStar
    /\ ~hasPermission(permissions, FsRead)
    /\ MapHas(permissions, AnyStar) /\ MapGet(permissions, AnyStar)
    /\ MapIndex(permissions, FsStar) < MapIndex(permissions, AnyStar)

----------------------------------------------------------------------------
(* executeCommand and transactions: properties *)

\* C2: when the command:execute check of executeCommand is denied, the input
\* is not dispatched to the command engine and the caller gets an error.
C2_DeniedIsTerminal ==
    (lastExec.checked /\ ~lastExec.granted) =>
        (~lastExec.dispatched /\ lastExec.threw)

\* the transaction of caller c failed and has been rolled back
RolledBack(c) ==
    /\ tx[c].pc = "done"
    /\ tx[c].commandError # ""
    /\ tx[c].restores > 0

\* C3: after executeTransaction has rolled back, the working directory, the
\* environment and the alias table are what they were when it began.
C3_RollbackRestoresState ==
    \A c \in Callers :
       RolledBack(c) =>
          /\ currentDirectory = tx[c].before.currentDirectory
          /\ environment = tx[c].before.environment
          /\ aliases = tx[c].before.aliases
          /\ engineAliases = tx[c].before.engineAliases
       /\ processCwd = tx[c].before.processCwd
       /\ processEnv = tx[c].before.processEnv

\* the indices 1..n in order
RECURSIVE UpTo(_)
UpTo(n) == IF n = 0 THEN <<>> ELSE Append(UpTo(n-1), n)

\* C4: when command i of a transaction fails, no later command is executed,
\* the transaction is rolled back exactly once (snapshot restored, onRollback
\* called once) and the error of command i is thrown to the caller.
C4_FailureRollsBackOnceAndRethrows ==
    \A c \in Callers :
       (tx[c].pc = "done" /\ tx[c].commandError # "") =>
          /\ tx[c].executed = UpTo(tx[c].i)
          /\ tx[c].restores = 1
          /\ tx[c].onRollback # "none" => tx[c].callbacks = 1
          /\ tx[c].outcome = "threw"
          /\ tx[c].thrown = tx[c].commandError

\* C5: when executeTransaction has returned or thrown, its frame is off the
\* stack: the depth is what it was before the call.
C5_FramePoppedOnCommitAndRollback ==
    \A c \in Callers :
       tx[c].pc = "done" => Len(transactionStack) = tx[c].depthBefore

\* C6: when the onRollback callback throws during a rollback, the
\* transaction still fails with the error of the command, not with the error
\* of the callback.
C6_RollbackNeverThrows ==
    \A c \in Callers :
       (tx[c].pc = "done" /\ tx[c].commandError # ""
          /\ tx[c].onRollback = "throws") =>
             /\ tx[c].restores = 1
             /\ tx[c].thrown = tx[c].commandError

----------------------------------------------------------------------------
(* NexusTransaction and ObjectBridge: properties *)

\* the operations among the first k that were added with a rollback, last
\* first
RECURSIVE RollbacksLifo(_)
RollbacksLifo(k) ==
    IF k = 0 THEN <<>>
    ELSE (IF ntOperations[k].rollback # "none" THEN <<k>> ELSE <<>>)
         \o RollbacksLifo(k - 1)

\* C7: when operation k of NexusTransaction.execute fails after the
\* operations before it succeeded, the rollback handlers run are exactly
\* those of the operations that executed, last executed first.
C7_RollbackHandlersLifoOverExecuted ==
    (nt.pc = "done" /\ nt.outcome = "threw") =>
        nt.ran = RollbacksLifo(nt.executed)

\* C1: every bridge method issues a permission check before its work, and
\* when a check is denied it fails with a permission error and has none of
\* its effects.
C1_BridgeGate ==
    lastBridge.method # "none" =>
        /\ lastBridge.checks # <<>>
        /\ (\E n \in 1..Len(lastBridge.checks) : ~lastBridge.checks[n].granted)
              => /\ lastBridge.outcome = "PermissionDenied"
                 /\ lastBridge.effects = {}

----------------------------------------------------------------------------
(* Audit log and sandbox: properties *)

\* a ring-buffer capacity below the number of checks made
AuditCapacity == MaxAudit - 1

\* C11: the audit log is a ring buffer of N entries: after any number of
\* permission checks it holds at most N entries.
C11_AuditLogIsRingBuffer == Len(auditLog) <= AuditCapacity

\* C12: once a sandbox with allow-list L exists, a permission that L does
\* not match is denied by a check even when the process-wide grant map
\* allows it.
C12_SandboxAllowListFirst ==
    (/\ sandbox # NoSandbox
     /\ lastCall.op = "checkPermission"
     /\ ~SandboxCheck(sandbox, lastCall.permission))
        => ~lastCall.result

\* the grant map of setDefaultPermissions followed by the sandbox policy
SandboxedDefaults ==
    ApplyRules(GrantAll(<<>>, DefaultPermissions, Len(DefaultPermissions)),
               SandboxPolicy, Len(SandboxPolicy))

\* C13: with the default permissions followed by the sandbox policy, a
\* check of proc:kill:<pid> returns false and appends exactly one audit
\* entry, with granted = false.
C13_ProcKillDeniedUnderSandboxPolicy ==
    [][(/\ permissions = SandboxedDefaults
        /\ lastCall'.op = "checkPermission"
        /\ lastCall'.permission \in ProcKillKeys)
          => /\ ~lastCall'.result
             /\ ~lastCall'.threw
             /\ auditLog' = Append(auditLog,
                                   AuditEntry(lastCall'.permission, FALSE))]_vars

C13_Witness ==
    /\ permissions = SandboxedDefaults
    /\ lastCall.op = "checkPermission"
    /\ lastCall.permission \in ProcKillKeys
    /\ ~lastCall.result
    /\ auditLog # <<>>
    /\ auditLog[Len(auditLog)] = AuditEntry(lastCall.permission, FALSE)

\* the atoms from i on match the text from position j of s to its end
RECURSIVE MatchToEnd(_, _, _, _)
MatchToEnd(atoms, i, s, j) ==
    IF i > Len(atoms) THEN j = Len(s) + 1
    ELSE IF atoms[i].star
         THEN \/ MatchToEnd(atoms, i+1, s, j)
              \/ /\ j <= Len(s)
                 /\ AtomOk(atoms[i], s[j])
                 /\ MatchToEnd(atoms, i, s, j+1)
         ELSE /\ j <= Len(s)
              /\ AtomOk(atoms[i], s[j])
              /\ MatchToEnd(atoms, i+1, s, j+1)

\* the whole key, from its first to its last character, matches the pattern
AnchoredMatch(pattern, key) ==
    MatchToEnd(RegexAtoms(ReplaceFirstStar(pattern), 1), 1, key, 1)

\* C14: wildcard matching is anchored: when a check is decided by a wildcard
\* entry, the whole key matches that entry's pattern.
C14_WildcardMatchAnchored ==
    (/\ lastCall.op = "checkPermission"
     /\ ~lastCall.threw
     /\ ~MapHas(permissions, lastCall.permission))
        => LET i == WildcardScan(permissions, lastCall.permission, 1)
           IN  i > 0 => AnchoredMatch(permissions[i].key, lastCall.permission)

----------------------------------------------------------------------------
(* Pipelines, scripted lines and external commands: properties *)

\* C15: a pipeline runs its stages strictly in order: stage 0 receives
\* pipeline input null, stage i > 0 receives the result of stage i-1, and
\* the value returned is the result of the last stage.
C15_PipelineStagesInOrder ==
    (eng.pc # "idle" /\ Len(eng.line) > 1) =>
        /\ eng.started = UpTo(eng.i)
        /\ \A n \in 1..Len(eng.received) :
              eng.received[n] = IF n = 1 THEN Null ELSE eng.results[n-1]
        /\ (eng.pc = "done" /\ eng.outcome = "returned") =>
              /\ eng.i = Len(eng.line)
              /\ eng.value = eng.results[Len(eng.line)]

\* C16: when stage i of a pipeline fails, no later stage is started and the
\* caller gets the error of stage i, not the result of another stage.
C16_PipelineAbortsOnFailure ==
    (eng.pc = "done" /\ Len(eng.line) > 1 /\ eng.failed # 0) =>
        /\ \A n \in 1..Len(eng.started) : eng.started[n] <= eng.failed
        /\ eng.value = eng.error

\* C17: a line given to execute in which any segment is scripted is
\* evaluated once, as a whole, by the scripted evaluator, and none of its
\* segments is run as a command or external process.
C17_ScriptedSegmentPromotesLine ==
    (eng.engine = "js" /\ eng.pc = "done" /\ isObjectPipelineMode(eng.line)) =>
        /\ eng.evaluated = 1
        /\ eng.started = <<>>

\* C18: when the child of an external command exits with a non-zero code,
\* execute does not throw; it returns a value with success=false and the
\* code.
C18_NonZeroExitIsReturned ==
    (/\ eng.engine = "js"
     /\ eng.pc = "done"
     /\ ~isObjectPipelineMode(eng.line)
     /\ eng.started # <<>>
     /\ eng.line[eng.started[Len(eng.started)]] = FalseCmd)
        => /\ eng.outcome = "returned"
           /\ eng.started[Len(eng.started)] = Len(eng.line)
                 => eng.value = "success=false code=1"

----------------------------------------------------------------------------
(* ExecutionRecorder: properties *)

\* C19: while a recording is in progress every recorded command appends
\* exactly one entry, the entries keep the order in which the commands began
\* with ids 1..n, and stopRecording returns exactly those entries.
C19_RecordingKeepsOrder ==
    [][recording =>
         IF ~recording'
         THEN recorder'.returned = currentRecording
         ELSE /\ Len(currentRecording') \in
                    {Len(currentRecording), Len(currentRecording) + 1}
              /\ \A n \in 1..Len(currentRecording') :
                    currentRecording'[n].id = n
              /\ \A n \in 1..Len(currentRecording) :
                    currentRecording'[n].input = currentRecording[n].input
              /\ (commandsExecuted' # commandsExecuted /\ lastExec'.dispatched)
                    => /\ Len(currentRecording') = Len(currentRecording) + 1
                       /\ currentRecording'[Len(currentRecording')].input
                             = lastExec'.input]_vars

C19_Witness ==
    /\ ~recording
    /\ Len(recorder.returned) = 2
    /\ recorder.returned[1].id = 1
    /\ recorder.returned[2].id = 2
    /\ recorder.returned[1].input # recorder.returned[2].input
    /\ lastExec.dispatched

\* C20: a command executed through executeCommand while a recording is in
\* progress has, once it has completed, an entry with its input, its result
\* or its error, and an execution time.
C20_RecordedEntryHasResult ==
    [][(recording /\ commandsExecuted' # commandsExecuted
                  /\ lastExec'.dispatched)
          => LET e == currentRecording'[Len(currentRecording')]
             IN  /\ e.input = lastExec'.input
                 /\ e.result # Undefined \/ e.error # Undefined
                 /\ e.executionTime # Undefined]_vars

----------------------------------------------------------------------------
(* ExecutionRecorder.replay: properties *)

\* the indices from to to-1 in rising order
FromTo(from, to) ==
    [k \in 1..(IF to > from THEN to - from ELSE 0) |-> from + k - 1]

\* C21: a replay of a recording that holds n commands, with startFrom = s,
\* that has completed has re-issued the commands s..n-1 in recorded order,
\* each once, and its session holds one result per re-issued command in
\* that order.
C21_ReplayReissuesInOrder ==
    (replaySession.pc = "done" /\ replaySession.outcome = "returned") =>
        /\ replaySession.issued =
              FromTo(replaySession.startFrom, replaySession.held)
        /\ Len(replaySession.results) = Len(replaySession.issued)
        /\ \A k \in 1..Len(replaySession.results) :
              replaySession.results[k].command = replaySession.issued[k]

\* C28: a replay re-issues as many commands as the recording held when the
\* replay started (from startFrom on), also when the recording replayed is
\* the one being recorded: it never re-issues more.
C28_ReplayReissuesHeldCommands ==
    replaySession.pc \in {"loop", "done"} =>
        Len(replaySession.issued)
            <= Len(FromTo(replaySession.startFrom, replaySession.held))

\* C22: a recording is frozen by stop: once stopRecording has returned,
\* the list written to disk, the list returned and the list kept in memory
\* under the recording's id are equal, also when executeCommand calls ran
\* between the steps of stopRecording.
C22_StoppedRecordingIsFrozen ==
    (recorder.op = "stopRecording" /\ recorder.pc = "idle"
                                   /\ ~recorder.threw) =>
        /\ recorder.saved = recorder.returned
        /\ recorder.recordings[recorder.recordingId] = recorder.returned

\* C29: at most one recording is in progress: startRecording while one is
\* in progress is rejected and leaves the current recording, the recordings
\* kept and the recordingId counter as they were; stopRecording while none
\* is in progress is rejected; and while none is in progress no call
\* (recordCommand included) changes any recording.
C29_OneRecordingAtATime ==
    [][/\ (recording /\ recorder' # recorder
                     /\ recorder'.op = "startRecording")
            => /\ recorder'.threw
               /\ recording'
               /\ currentRecording' = currentRecording
               /\ recorder'.recordingId = recorder.recordingId
               /\ recorder'.recordings = recorder.recordings
       /\ (~recording /\ recorder' # recorder
                      /\ recorder'.op = "stopRecording")
            => /\ recorder'.threw
               /\ ~recording'
               /\ recorder'.pc = "idle"
               /\ recorder'.returned = recorder.returned
       /\ (~recording /\ ~recording')
            => /\ currentRecording' = currentRecording
               /\ recorder'.recordings = recorder.recordings
               /\ recorder'.recordingId = recorder.recordingId]_vars

C29_Witness ==
    /\ recording
    /\ recorder.op = "startRecording"
    /\ recorder.threw
    /\ recorder.recordingId = 1
    /\ Len(currentRecording) = 1

----------------------------------------------------------------------------
(* executeTransaction: results *)

\* C23: executeTransaction runs its commands one after the other in list
\* order, each result is appended behind the earlier ones, and a call in
\* which every command succeeds returns one result per command.
C23_TransactionResultsInOrder ==
    [][\A c \in Callers :
          /\ (tx[c].pc = "running" /\ tx'[c].executed # tx[c].executed) =>
                /\ tx'[c].executed =
                      Append(tx[c].executed, Len(tx[c].executed) + 1)
                /\ tx'[c].pc # "rollback" =>
                      tx'[c].results =
                         Append(tx[c].results,
                                RunCommand(tx[c].commands[
                                    Len(tx[c].executed) + 1]).out.value)
          /\ (tx[c].pc # "done" /\ tx'[c].pc = "done"
                                /\ tx'[c].outcome = "returned") =>
                /\ tx'[c].executed = UpTo(Len(tx'[c].commands))
                /\ Len(tx'[c].results) = Len(tx'[c].commands)]_vars

C23_Witness ==
    /\ tx[1].pc = "done"
    /\ tx[1].outcome = "returned"
    /\ Len(tx[1].commands) = 2
    /\ Len(tx[1].results) = 2
    /\ tx[1].results[1] # tx[1].results[2]

\* C27: when executeTransaction calls overlap, a commit removes the frame
\* of its own transaction and leaves every other frame on the stack, and a
\* failing transaction finds its own frame: it never fails with
\* 'Transaction not found'.
C27_OverlappingTransactionsKeepOwnFrames ==
    [][\A c \in Callers :
          /\ (tx[c].pc = "commit" /\ tx'[c].pc = "done") =>
                /\ FindFrame(transactionStack', tx[c].id) = 0
                /\ \A k \in 1..Len(transactionStack) :
                      transactionStack[k].id # tx[c].id =>
                         FindFrame(transactionStack',
                                   transactionStack[k].id) # 0
          /\ tx'[c].thrown # "Transaction not found"]_vars

----------------------------------------------------------------------------
(* Marshalling, parsing and the REPL: properties *)

\* C24: a null, boolean, number, string, list or map handed to the other
\* domain and taken back is the value that was handed over, after one
\* round trip and after any number of them.
C24_MarshallingRoundTrips ==
    (marshal.pc = "scripted" /\ marshal.trips >= 1) =>
        marshal.scripted = marshal.original

\* the words of a line: split at the spaces outside quotes, the quote
\* characters dropped
RECURSIVE UnquotedWordsFrom(_, _, _, _, _, _)
UnquotedWordsFrom(line, i, words, word, open, quoted) ==
    IF i > Len(line)
    THEN IF open THEN Append(words, word) ELSE words
    ELSE IF line[i] = "\""
         THEN UnquotedWordsFrom(line, i + 1, words, word, TRUE, ~quoted)
         ELSE IF line[i] = " " /\ ~quoted
         THEN UnquotedWordsFrom(line, i + 1,
                                IF open THEN Append(words, word) ELSE words,
                                <<>>, FALSE, FALSE)
         ELSE UnquotedWordsFrom(line, i + 1, words, Append(word, line[i]),
                                TRUE, quoted)

UnquotedWords(line) == UnquotedWordsFrom(line, 1, <<>>, <<>>, FALSE, FALSE)

Chars(s) == {s[i] : i \in 1..Len(s)}

\* C25: a quoted token keeps its internal whitespace and is stored without
\* its quotes: a line with a quoted part and no flags parses to its first
\* word as the command and its other words, unquoted, as the positional
\* arguments (ls "a b".t gives the one argument a b.t).
C25_QuotedTokenKeepsWhitespace ==
    (/\ parsed.parser # "none"
     /\ "\"" \in Chars(parsed.input)
     /\ "-" \notin Chars(parsed.input)) =>
        /\ parsed.result.command = Head(UnquotedWords(parsed.input))
        /\ parsed.result.args = Tail(UnquotedWords(parsed.input))

\* a string of one or more characters that are neither - nor = nor a quote
Plain(s) == s # <<>> /\ Chars(s) \cap {"-", "=", "\"", " "} = {}

IsLongFlagWithValue(w) ==
    /\ StartsWith(w, <<"-", "-">>)
    /\ \E e \in 4..(Len(w) - 1) :
          /\ w[e] = "="
          /\ Plain(SubSeq(w, 3, e - 1))
          /\ Plain(SubSeq(w, e + 1, Len(w)))

IsLongFlag(w) == StartsWith(w, <<"-", "-">>) /\ Plain(SubSeq(w, 3, Len(w)))

IsShortFlags(w) == StartsWith(w, <<"-">>) /\ Plain(SubSeq(w, 2, Len(w)))

IsPositional(w) == ~StartsWith(w, <<"-">>)

\* the flags a word sets: pairs of a key and a value, <<>> standing for
\* true
FlagsOf(w) ==
    IF IsLongFlagWithValue(w)
    THEN LET e == CHOOSE e \in 4..(Len(w) - 1) : w[e] = "="
         IN  {<<SubSeq(w, 3, e - 1), "value", SubSeq(w, e + 1, Len(w))>>}
    ELSE IF IsLongFlag(w) THEN {<<SubSeq(w, 3, Len(w)), "true", <<>> >>}
    ELSE IF IsShortFlags(w)
    THEN {<< <<w[j]>>, "true", <<>> >> : j \in 2..Len(w)}
    ELSE {}

\* the flags of a parsed command as such pairs
FlagPairs(flags) ==
    { IF flags[i].val \in {BoolTrue, Str(<<"t", "r", "u", "e">>)}
      THEN <<flags[i].key, "true", <<>> >>
      ELSE <<flags[i].key, "value", flags[i].val.s>> : i \in 1..Len(flags) }

\* C26: in a line without quotes whose words after the command are of the
\* forms --k=v, --k, -abc or a word that does not start with -, and in
\* which no flag is set twice, --k=v sets flag k to v, --k sets k to true,
\* -abc sets the three flags a, b and c to true, and the other words are
\* the positional arguments in order.
C26_FlagsAndPositionals ==
    LET words == Tail(UnquotedWords(parsed.input))
    IN  (/\ parsed.parser # "none"
         /\ "\"" \notin Chars(parsed.input)
         /\ \A n \in 1..Len(words) :
               \/ IsLongFlagWithValue(words[n])
               \/ IsLongFlag(words[n])
               \/ IsShortFlags(words[n])
               \/ IsPositional(words[n])
         /\ \A n, m \in 1..Len(words) : \A f \in FlagsOf(words[n]) :
               \A g \in FlagsOf(words[m]) : f[1] = g[1] => f = g) =>
            /\ FlagPairs(parsed.result.flags)
                  = UNION {FlagsOf(words[n]) : n \in 1..Len(words)}
            /\ parsed.result.args = SelectSeq(words, IsPositional)

\* C30: when the REPL is in multiline mode, handling an empty input line
\* executes the accumulated buffer and returns the REPL to single-line
\* mode.
C30_EmptyLineRunsMultilineBuffer ==
    [][(/\ repl.inMultilineMode
        /\ repl'.handled = repl.handled + 1
        /\ repl'.lastInput = <<>>) =>
          /\ ~repl'.inMultilineMode
          /\ repl'.multilineBuffer = <<>>
          /\ repl'.executions = repl.executions + 1]_vars

====
